---- MODULE Spec2Model ----
(***************************************************************************)
(* Model of the interphone stream synchronizer                             *)
(* (breeze_next/lib/stream-synchronizer.ts): one StreamSynchronizer        *)
(* instance, its two buffers, its statistics, its two interval timers and  *)
(* the frames it hands to a frame listener registered at construction;     *)
(* and of the device session registry                                      *)
(* (breeze_next/lib/interphone-mqtt.ts): the InterphoneMQTTHandler with    *)
(* its active set, its device-id -> synchronizer map, its device metadata, *)
(* its call-event listeners and the transport it publishes to; of the      *)
(* message router (breeze_next/lib/mqtt.ts): the MQTTManager with its      *)
(* client, its topic-pattern callbacks and its default routing into the    *)
(* device store; and of the socket server the handler broadcasts synced    *)
(* frames to.                                                              *)
(*                                                                         *)
(* Time is the value of Date.now() in milliseconds.  Millisecond values    *)
(* derived from timestamp_us / 1000 are kept exactly, as a whole part and  *)
(* a remainder in thousandths (Ms records); IEEE rounding of the division  *)
(* is not modelled.                                                        *)
(***************************************************************************)
EXTENDS Integers, Sequences, FiniteSets, TLC

(* ---------------- bounds of the model ---------------- *)
MaxPackets == 3
MaxTicks == 12
MaxResets == 1
MaxBurstPackets == 4
MaxStreamPackets == 1
MaxListeners == 2
MaxRegistrations == 2
MaxTextLen == 3
MaxSocketPackets == 4

(* ---------------- program constants ---------------- *)
max_jitter_ms == 50
buffer_timeout_ms == 500
SweepIntervalMs == 100
StatsIntervalMs == 1000
LatencyWindowMs == 1000
UsPerMs == 1000

\* producer timestamps (microseconds) the sources may stamp a packet with
TimestampsUs == {0, 50000, 50500, 100000}

\* the instants (values of Date.now()) at which the transport may deliver a packet
ArrivalTimes == {0, 500, 1100}

VARIABLES
  audioBuffer,   \* BufferedPacket[]
  videoBuffer,   \* BufferedPacket[]
  stats,         \* the statistics object
  now,           \* Date.now()
  sweepDue,      \* the 100 ms interval timer has expired and its callback is queued
  statsDue,      \* the 1000 ms interval timer has expired and its callback is queued
  emitted,       \* what the frame listener has been called with, in call order
  statsSeen,     \* number of calls of the stats listener
  sent,          \* number of packets the producers have sent so far
  resets,        \* number of reset() calls so far
  history,       \* per packet, by sequence number: its kind and how it has
                 \* left its buffer ("buffered" while it has not)
  last,          \* the operation that produced this state
  \* ---- InterphoneMQTTHandler ----
  activeDevices,       \* Set<string>
  synchronizers,       \* Map<string, StreamSynchronizer>
  devices,             \* Map<string, InterphoneDevice>, by the ids it holds
  callEventListeners,  \* the registered call-event callbacks, in order
  isConnected,         \* MQTTManager.isConnected
  subscribed,          \* subscribeToTopics() has run
  created,             \* number of StreamSynchronizer objects constructed by the handler
  streamed,            \* number of stream packets the handler has received
  lastCall,            \* the handler operation that produced this state
  \* ---- MQTTManager ----
  client,              \* MQTTManager.client is not null
  topicCallbacks,      \* Map<pattern, callbacks>, in insertion order
  deviceStore,         \* the device ids the device store holds
  lastMessage,         \* the MQTTManager operation that produced this state
  \* ---- socket server ----
  socketIOServer,      \* InterphoneMQTTHandler.socketIOServer is not null
  rooms,               \* per connection, the devices whose room it has joined
  frameLog,            \* the frames the device synchronizers have emitted, in order
  wire,                \* the syncedFrame events delivered to connections, in order
  \* ---- broker ----
  inFlight,            \* the handler's own control events the broker has routed
                       \* back to the handler's subscription and not yet delivered
  \* ---- StreamStore ----
  streams,             \* Map<string, StreamFrame[]>
  subscribers,         \* Map<string, Set<callback>>
  lastStore            \* the StreamStore operation that produced this state

syncVars == <<audioBuffer, videoBuffer, stats, now, sweepDue, statsDue, emitted,
              statsSeen, sent, resets, history, last>>

\* the handler's own fields
handlerState == <<activeDevices, synchronizers, devices, callEventListeners,
                  isConnected, subscribed, created, streamed>>

handlerVars == <<activeDevices, synchronizers, devices, callEventListeners,
                 isConnected, subscribed, created, streamed, lastCall>>

routerVars == <<client, topicCallbacks, deviceStore, lastMessage>>

socketVars == <<socketIOServer, rooms, frameLog, wire>>

storeVars == <<streams, subscribers, lastStore>>

\* what lies outside the handler, the router and the socket server
extVars == <<inFlight, storeVars>>

outerVars == <<routerVars, socketVars, extVars>>

vars == <<syncVars, handlerVars, routerVars, socketVars, extVars>>

NULL == [null |-> TRUE]

(* ---------------- millisecond values ---------------- *)
\* timestamp_us / 1000
MsOfUs(us) == [whole |-> us \div UsPerMs, frac |-> us % UsPerMs]

MsToUs(m) == m.whole * UsPerMs + m.frac

\* Math.abs(x - y)
AbsDiffMs(x, y) ==
  LET d == MsToUs(x) - MsToUs(y)
  IN  MsOfUs(IF d < 0 THEN 0 - d ELSE d)

\* Math.max in the place of Math.min
MinMs_Max(x, y) == IF MsToUs(x) <= MsToUs(y) THEN y ELSE x

\* Math.min(x, y)
MinMs(x, y) == IF MsToUs(x) <= MsToUs(y) THEN x ELSE y

\* x <= n, n a whole number of milliseconds
MsLeq(x, n) == x.whole < n \/ (x.whole = n /\ x.frac = 0)

(* ---------------- sequences ---------------- *)
\* the splice left out
Splice_Keep(s, i) == s

\* Array.prototype.splice(i, 1), i counted from 1
Splice(s, i) == SubSeq(s, 1, i - 1) \o SubSeq(s, i + 1, Len(s))

\* insert b after every entry whose timestamp is <= its own
RECURSIVE InsertStable(_, _)
InsertStable(s, b) ==
  IF s = <<>> THEN <<b>>
  ELSE IF Head(s).packet.timestamp_us <= b.packet.timestamp_us
       THEN <<Head(s)>> \o InsertStable(Tail(s), b)
       ELSE <<b>> \o s

\* the sort left out
SortByTimestamp_None(s) == s

\* Array.prototype.sort((a, b) => a.packet.timestamp_us - b.packet.timestamp_us),
\* a stable sort
RECURSIVE SortByTimestamp(_)
SortByTimestamp(s) ==
  IF s = <<>> THEN <<>>
  ELSE InsertStable(SortByTimestamp(SubSeq(s, 1, Len(s) - 1)), s[Len(s)])

Range(s) == {s[i] : i \in 1..Len(s)}

(* ---------------- decimal and rational values ---------------- *)
RECURSIVE Pow10(_)
Pow10(e) == IF e = 0 THEN 1 ELSE 10 * Pow10(e - 1)

\* the number n / 10^e, written without trailing zeros
RECURSIVE Dec(_, _)
Dec(n, e) ==
  IF n = 0 THEN [n |-> 0, e |-> 0]
  ELSE IF e > 0 /\ n % 10 = 0 THEN Dec(n \div 10, e - 1)
       ELSE [n |-> n, e |-> e]

DecZero == [n |-> 0, e |-> 0]

RECURSIVE Gcd(_, _)
Gcd(a, b) == IF b = 0 THEN a ELSE Gcd(b, a % b)

\* the number num / den in lowest terms
Ratio(num, den) ==
  LET g == Gcd(num, den)
  IN  IF num = 0 THEN [num |-> 0, den |-> 1]
      ELSE [num |-> num \div g, den |-> den \div g]

(* ---------------- the synchronizer ---------------- *)
ZeroStats ==
  [packets_received |-> 0, packets_synced |-> 0, packets_dropped |-> 0,
   avg_jitter |-> DecZero, current_latency |-> Ratio(0, 1)]

\* this.stats.avg_jitter * 0.9 + jitter * 0.1, jitter an Ms value
\* updateJitterStats with the two weights exchanged
updateJitterStats_SwappedWeights(avg, jitter) ==
  LET e == IF avg.e + 1 > 4 THEN avg.e + 1 ELSE 4
  IN  Dec(avg.n * Pow10(e - (avg.e + 1)) + 9 * MsToUs(jitter) * Pow10(e - 4), e)

updateJitterStats(avg, jitter) ==
  LET e == IF avg.e + 1 > 4 THEN avg.e + 1 ELSE 4
  IN  Dec(9 * avg.n * Pow10(e - (avg.e + 1)) + MsToUs(jitter) * Pow10(e - 4), e)

\* timeDiff of trySync for one audio and one video entry
timeDiff(audioItem, videoItem) ==
  AbsDiffMs(MsOfUs(audioItem.packet.timestamp_us),
            MsOfUs(videoItem.packet.timestamp_us))

\* the test of the inner loop of trySync
WithinJitter(audioItem, videoItem) ==
  MsLeq(timeDiff(audioItem, videoItem), max_jitter_ms)

\* the index pairs the nested loops of trySync would accept
MatchingPairs(ab, vb) ==
  {ij \in (1..Len(ab)) \X (1..Len(vb)) : WithinJitter(ab[ij[1]], vb[ij[2]])}

\* the inner loop run from the end of the video buffer
FirstPair_LastVideo(ab, vb) ==
  CHOOSE ij \in MatchingPairs(ab, vb) :
    \A kl \in MatchingPairs(ab, vb) :
      ij[1] < kl[1] \/ (ij[1] = kl[1] /\ ij[2] >= kl[2])

\* the pair the nested loops reach first: lowest i, then lowest j
FirstPair(ab, vb) ==
  CHOOSE ij \in MatchingPairs(ab, vb) :
    \A kl \in MatchingPairs(ab, vb) :
      ij[1] < kl[1] \/ (ij[1] = kl[1] /\ ij[2] <= kl[2])

CompleteFrame(audioItem, videoItem) ==
  [audio |-> audioItem.packet,
   video |-> videoItem.packet,
   timestamp |-> MinMs(MsOfUs(audioItem.packet.timestamp_us),
                       MsOfUs(videoItem.packet.timestamp_us)),
   complete |-> TRUE]

VideoOnlyFrame(item) ==
  [audio |-> NULL, video |-> item.packet,
   timestamp |-> MsOfUs(item.packet.timestamp_us), complete |-> FALSE]

\* an audio-only frame flagged complete
AudioOnlyFrame_Complete(item) ==
  [audio |-> item.packet, video |-> NULL,
   timestamp |-> MsOfUs(item.packet.timestamp_us), complete |-> TRUE]

AudioOnlyFrame(item) ==
  [audio |-> item.packet, video |-> NULL,
   timestamp |-> MsOfUs(item.packet.timestamp_us), complete |-> FALSE]

RECURSIVE VideoOnlyFrames(_)
VideoOnlyFrames(s) ==
  IF s = <<>> THEN <<>> ELSE <<VideoOnlyFrame(Head(s))>> \o VideoOnlyFrames(Tail(s))

RECURSIVE AudioOnlyFrames(_)
AudioOnlyFrames(s) ==
  IF s = <<>> THEN <<>> ELSE <<AudioOnlyFrame(Head(s))>> \o AudioOnlyFrames(Tail(s))

\* handleOrphanedPackets without the filter that removes the orphaned audio
handleOrphanedPackets_KeepAudio(ab, vb, st, t) ==
  LET timeout == buffer_timeout_ms
      IsOrphan(item) == t - item.received_at > timeout
      Stays(item) == t - item.received_at <= timeout
      orphanedAudio == SelectSeq(ab, IsOrphan)
      orphanedVideo == SelectSeq(vb, IsOrphan)
  IN  [audioBuffer |-> ab,
       videoBuffer |-> SelectSeq(vb, Stays),
       stats |-> [st EXCEPT !.packets_dropped =
                    @ + Len(orphanedAudio) + Len(orphanedVideo)],
       frames |-> VideoOnlyFrames(orphanedVideo) \o AudioOnlyFrames(orphanedAudio),
       synced |-> {},
       orphaned |-> {b.packet.sequence_num : b \in Range(orphanedVideo)}]

\* handleOrphanedPackets(now): the new buffers and statistics, the frames
\* handed to emitSyncedFrame in order, and the packets that left a buffer
handleOrphanedPackets(ab, vb, st, t) ==
  LET timeout == buffer_timeout_ms
      IsOrphan(item) == t - item.received_at > timeout
      Stays(item) == t - item.received_at <= timeout
      orphanedAudio == SelectSeq(ab, IsOrphan)
      orphanedVideo == SelectSeq(vb, IsOrphan)
  IN  [audioBuffer |-> SelectSeq(ab, Stays),
       videoBuffer |-> SelectSeq(vb, Stays),
       stats |-> [st EXCEPT !.packets_dropped =
                    @ + Len(orphanedAudio) + Len(orphanedVideo)],
       frames |-> VideoOnlyFrames(orphanedVideo) \o AudioOnlyFrames(orphanedAudio),
       synced |-> {},
       orphaned |-> {b.packet.sequence_num : b \in Range(orphanedAudio) \cup Range(orphanedVideo)}]

\* trySync() counting a matched pair as one packet
trySync_SyncedPlusOne(ab, vb, st, t) ==
  IF MatchingPairs(ab, vb) # {}
  THEN LET ij == FirstPair(ab, vb)
           audioItem == ab[ij[1]]
           videoItem == vb[ij[2]]
       IN  [audioBuffer |-> Splice(ab, ij[1]),
            videoBuffer |-> Splice(vb, ij[2]),
            stats |-> [st EXCEPT !.packets_synced = @ + 1,
                                 !.avg_jitter = updateJitterStats(@, timeDiff(audioItem, videoItem))],
            frames |-> <<CompleteFrame(audioItem, videoItem)>>,
            synced |-> {audioItem.packet.sequence_num, videoItem.packet.sequence_num},
            orphaned |-> {}]
  ELSE handleOrphanedPackets(ab, vb, st, t)

\* trySync()
trySync(ab, vb, st, t) ==
  IF MatchingPairs(ab, vb) # {}
  THEN LET ij == FirstPair(ab, vb)
           audioItem == ab[ij[1]]
           videoItem == vb[ij[2]]
       IN  [audioBuffer |-> Splice(ab, ij[1]),
            videoBuffer |-> Splice(vb, ij[2]),
            stats |-> [st EXCEPT !.packets_synced = @ + 2,
                                 !.avg_jitter = updateJitterStats(@, timeDiff(audioItem, videoItem))],
            frames |-> <<CompleteFrame(audioItem, videoItem)>>,
            synced |-> {audioItem.packet.sequence_num, videoItem.packet.sequence_num},
            orphaned |-> {}]
  ELSE handleOrphanedPackets(ab, vb, st, t)

\* cleanupBuffers(): what one buffer keeps
cleanupBuffers_KeepAll(buf, t) == buf

cleanupBuffers(buf, t) ==
  LET maxAge == buffer_timeout_ms * 2
      Young(item) == t - item.received_at < maxAge
  IN  SelectSeq(buf, Young)

RECURSIVE SumAges(_, _)
SumAges(s, t) == IF s = <<>> THEN 0 ELSE (t - Head(s).received_at) + SumAges(Tail(s), t)

\* calculateCurrentLatency()
calculateCurrentLatency(ab, vb, t) ==
  LET Recent(p) == t - p.received_at < LatencyWindowMs
      recentPackets == SelectSeq(ab, Recent) \o SelectSeq(vb, Recent)
  IN  IF Len(recentPackets) = 0 THEN Ratio(0, 1)
      ELSE Ratio(SumAges(recentPackets, t), Len(recentPackets))

(* ---------------- bookkeeping of the run ---------------- *)
\* how the packets of set ids left their buffer at the current time
Leave(h, ids, how) ==
  [k \in DOMAIN h |-> IF k \in ids THEN [h[k] EXCEPT !.left = how] ELSE h[k]]

Seqs(buf) == {b.packet.sequence_num : b \in Range(buf)}

NoOp(name) == [op |-> name, packet |-> NULL, audioIn |-> <<>>, videoIn |-> <<>>, frames |-> <<>>]

(* ---------------- the handler's data ---------------- *)
DeviceIds == {"door", "gate"}

Listeners == {"l1", "l2"}

\* Map.get(deviceId) of a key the map does not hold
NoSynchronizer == [absent |-> TRUE]

\* new StreamSynchronizer({...}): empty buffers, zero statistics, both
\* interval timers started; id is the order of construction
NewSynchronizer(id) ==
  [id |-> id, audioBuffer |-> <<>>, videoBuffer |-> <<>>, stats |-> ZeroStats,
   sweepTimer |-> TRUE, statsTimer |-> TRUE]

\* one thing a handler operation did, in the order the code does it
Effect(kind, device, topic, event_type, listener, outcome) ==
  [kind |-> kind, device |-> device, topic |-> topic, event_type |-> event_type,
   listener |-> listener, outcome |-> outcome]

\* endCall(deviceId) started; outcome is what activeDevices.delete returns
EndCallEffect(deviceId) ==
  Effect("endCall", deviceId, "", "", "",
         IF deviceId \in activeDevices THEN "deleted" ELSE "absent")

Call(name, device, decoded, event_type, effects) ==
  [op |-> name, device |-> device, decoded |-> decoded,
   event_type |-> event_type, effects |-> effects]

NoCall(name) == Call(name, "", TRUE, "", <<>>)

HandlerInit ==
  /\ activeDevices = {}
  /\ synchronizers = [d \in DeviceIds |-> NoSynchronizer]
  /\ devices = {}
  /\ callEventListeners = <<>>
  /\ isConnected = FALSE
  /\ subscribed = FALSE
  /\ created = 0
  /\ streamed = 0
  /\ lastCall = NoCall("constructor")

(* ---------------- the router's and the socket server's data ---------------- *)
Connections == {"s1", "s2"}

NoMessage(name) ==
  [op |-> name, topic |-> <<>>, pattern |-> <<>>, payload |-> "",
   invoked |-> <<>>, route |-> "", deviceId |-> <<>>, result |-> ""]

RouterInit ==
  /\ client = FALSE
  /\ topicCallbacks = <<>>
  /\ deviceStore = {}
  /\ lastMessage = NoMessage("constructor")

SocketInit ==
  /\ socketIOServer = FALSE
  /\ rooms = [c \in Connections |-> {}]
  /\ frameLog = <<>>
  /\ wire = <<>>

(* ---------------- StreamStore ---------------- *)
\* private maxFramesPerDevice = 50
maxFramesPerDevice == 50

\* the largest timestamp a producer gives a frame
MaxFrames == 52

\* the callbacks given to subscribe
StoreCallbacks == {"player"}

StoreOp(op, deviceId) == [op |-> op, deviceId |-> deviceId]

\* streams = new Map(), subscribers = new Map(); a device without an entry
\* in a map is shown as the empty array, respectively the empty set
StoreInit ==
  /\ streams = [d \in DeviceIds |-> <<>>]
  /\ subscribers = [d \in DeviceIds |-> {}]
  /\ lastStore = StoreOp("constructor", "")

\* the frame a producer sends next for a device: timestamps of one device
\* are consecutive and start again at 1 after clearDevice
NextFrame(deviceId) ==
  [deviceId |-> deviceId,
   timestamp |-> IF streams[deviceId] = <<>> THEN 1
                 ELSE streams[deviceId][Len(streams[deviceId])].timestamp + 1,
   type |-> "video"]

\* frames.shift() that removes the frame just pushed
Shift_DropNewest(frames) == SubSeq(frames, 1, Len(frames) - 1)

\* frames.shift()
Shift(frames) == Tail(frames)

\* frames.push(frame), then the trim to maxFramesPerDevice
PushFrame(frames, frame) ==
  LET pushed == Append(frames, frame)
  IN  IF Len(pushed) > maxFramesPerDevice THEN Shift(pushed) ELSE pushed

\* notifySubscribers: a callback that throws is removed from the set
notifySubscribers(deviceSubscribers, throwing) == deviceSubscribers \ throwing

\* addFrame(frame); throwing is the set of subscribers whose callback throws
addFrame(frame, throwing) ==
  /\ frame.timestamp <= MaxFrames
  /\ throwing \subseteq subscribers[frame.deviceId]
  /\ streams' = [streams EXCEPT ![frame.deviceId] = PushFrame(@, frame)]
  /\ subscribers' = [subscribers EXCEPT
                       ![frame.deviceId] = notifySubscribers(@, throwing)]
  /\ lastStore' = [op |-> "addFrame", deviceId |-> frame.deviceId, frame |-> frame]
  /\ UNCHANGED <<syncVars, handlerVars, routerVars, socketVars, inFlight>>

\* subscribe(deviceId, callback)
subscribe(deviceId, callback) ==
  /\ subscribers' = [subscribers EXCEPT ![deviceId] = @ \cup {callback}]
  /\ lastStore' = StoreOp("subscribe", deviceId)
  /\ UNCHANGED streams
  /\ UNCHANGED <<syncVars, handlerVars, routerVars, socketVars, inFlight>>

\* the function subscribe(deviceId, callback) returned
unsubscribe(deviceId, callback) ==
  /\ callback \in subscribers[deviceId]
  /\ subscribers' = [subscribers EXCEPT ![deviceId] = @ \ {callback}]
  /\ lastStore' = StoreOp("unsubscribe", deviceId)
  /\ UNCHANGED streams
  /\ UNCHANGED <<syncVars, handlerVars, routerVars, socketVars, inFlight>>

\* clearDevice(deviceId)
clearDevice(deviceId) ==
  /\ streams' = [streams EXCEPT ![deviceId] = <<>>]
  /\ subscribers' = [subscribers EXCEPT ![deviceId] = {}]
  /\ lastStore' = StoreOp("clearDevice", deviceId)
  /\ UNCHANGED <<syncVars, handlerVars, routerVars, socketVars, inFlight>>

\* getLatestFrames(deviceId, count): frames.slice(-count)
getLatestFrames(deviceId, count) ==
  LET frames == streams[deviceId]
      start == IF count = 0 \/ count >= Len(frames) THEN 0
               ELSE Len(frames) - count
  IN  SubSeq(frames, start + 1, Len(frames))

NextStore ==
  \/ \E d \in DeviceIds : \E throwing \in SUBSET StoreCallbacks :
       addFrame(NextFrame(d), throwing)
  \/ \E d \in DeviceIds, cb \in StoreCallbacks : subscribe(d, cb)
  \/ \E d \in DeviceIds, cb \in StoreCallbacks : unsubscribe(d, cb)
  \/ \E d \in DeviceIds : clearDevice(d)

(* ---------------- initial state: after the constructor ---------------- *)
Init ==
  /\ HandlerInit
  /\ RouterInit
  /\ SocketInit
  /\ inFlight = {}
  /\ StoreInit
  /\ audioBuffer = <<>>
  /\ videoBuffer = <<>>
  /\ stats = ZeroStats
  /\ now = 0
  /\ sweepDue = FALSE
  /\ statsDue = FALSE
  /\ emitted = <<>>
  /\ statsSeen = 0
  /\ sent = 0
  /\ resets = 0
  /\ history = <<>>
  /\ last = NoOp("constructor")

(* ---------------- operations ---------------- *)
\* the common part of addAudioPacket and addVideoPacket after the push and sort
AddPacket(name, packet, ab, vb) ==
  LET r == trySync(ab, vb, [stats EXCEPT !.packets_received = @ + 1], now)
  IN  /\ audioBuffer' = r.audioBuffer
      /\ videoBuffer' = r.videoBuffer
      /\ stats' = r.stats
      /\ emitted' = emitted \o r.frames
      /\ sent' = sent + 1
      /\ history' = Leave(Leave(Append(history, [stream_type |-> packet.stream_type,
                                                     left |-> "buffered"]),
                                r.synced, "sync"), r.orphaned, "orphan")
      /\ last' = [op |-> name, packet |-> packet, audioIn |-> ab, videoIn |-> vb,
                  frames |-> r.frames]
      /\ UNCHANGED <<now, sweepDue, statsDue, statsSeen, resets>>
      /\ UNCHANGED handlerVars
  /\ UNCHANGED outerVars

\* addAudioPacket(packet), packet the next one of the producers
addAudioPacketCall(ts) ==
  LET packet == [stream_type |-> "AUDIO", sequence_num |-> sent + 1, timestamp_us |-> ts]
      buffered == [packet |-> packet, received_at |-> now]
  IN  AddPacket("addAudioPacket", packet,
                SortByTimestamp(Append(audioBuffer, buffered)), videoBuffer)

\* addVideoPacket(packet), packet the next one of the producers
addVideoPacketCall(ts) ==
  LET packet == [stream_type |-> "VIDEO", sequence_num |-> sent + 1, timestamp_us |-> ts]
      buffered == [packet |-> packet, received_at |-> now]
  IN  AddPacket("addVideoPacket", packet,
                audioBuffer, SortByTimestamp(Append(videoBuffer, buffered)))

addAudioPacket(ts) ==
  /\ sent < MaxPackets
  /\ now \in ArrivalTimes
  /\ addAudioPacketCall(ts)

addVideoPacket(ts) ==
  /\ sent < MaxPackets
  /\ now \in ArrivalTimes
  /\ addVideoPacketCall(ts)

\* 100 ms pass with nothing queued: both interval timers are looked at
Tick ==
  /\ ~sweepDue /\ ~statsDue
  /\ now < MaxTicks * SweepIntervalMs
  /\ now' = now + SweepIntervalMs
  /\ sweepDue' = TRUE
  /\ statsDue' = (now' % StatsIntervalMs = 0)
  /\ last' = NoOp("tick")
  /\ UNCHANGED <<audioBuffer, videoBuffer, stats, emitted, statsSeen, sent, resets, history>>
  /\ UNCHANGED handlerVars
  /\ UNCHANGED outerVars

\* the callback of setInterval(() => this.cleanupBuffers(), 100)
Sweep ==
  /\ sweepDue
  /\ sweepDue' = FALSE
  /\ audioBuffer' = cleanupBuffers(audioBuffer, now)
  /\ videoBuffer' = cleanupBuffers(videoBuffer, now)
  /\ history' = Leave(history, (Seqs(audioBuffer) \cup Seqs(videoBuffer))
                                  \ (Seqs(audioBuffer') \cup Seqs(videoBuffer')), "cleanup")
  /\ last' = NoOp("sweep")
  /\ UNCHANGED <<stats, now, statsDue, emitted, statsSeen, sent, resets>>
  /\ UNCHANGED handlerVars
  /\ UNCHANGED outerVars

\* the callback of setInterval(() => this.emitStats(), 1000)
emitStats ==
  /\ statsDue
  /\ statsDue' = FALSE
  /\ stats' = [stats EXCEPT !.current_latency = calculateCurrentLatency(audioBuffer, videoBuffer, now)]
  /\ statsSeen' = statsSeen + 1
  /\ last' = NoOp("emitStats")
  /\ UNCHANGED <<audioBuffer, videoBuffer, now, sweepDue, emitted, sent, resets, history>>
  /\ UNCHANGED handlerVars
  /\ UNCHANGED outerVars

\* reset() that forgets the video buffer
reset_KeepVideo ==
  /\ resets < MaxResets
  /\ audioBuffer' = <<>>
  /\ videoBuffer' = videoBuffer
  /\ stats' = ZeroStats
  /\ resets' = resets + 1
  /\ history' = Leave(history, Seqs(audioBuffer), "reset")
  /\ last' = NoOp("reset")
  /\ UNCHANGED <<now, sweepDue, statsDue, emitted, statsSeen, sent>>
  /\ UNCHANGED handlerVars
  /\ UNCHANGED outerVars

reset ==
  /\ resets < MaxResets
  /\ audioBuffer' = <<>>
  /\ videoBuffer' = <<>>
  /\ stats' = ZeroStats
  /\ resets' = resets + 1
  /\ history' = Leave(history, Seqs(audioBuffer) \cup Seqs(videoBuffer), "reset")
  /\ last' = NoOp("reset")
  /\ UNCHANGED <<now, sweepDue, statsDue, emitted, statsSeen, sent>>
  /\ UNCHANGED handlerVars
  /\ UNCHANGED outerVars

Next ==
  \/ \E ts \in TimestampsUs : addAudioPacket(ts)
  \/ \E ts \in TimestampsUs : addVideoPacket(ts)
  \/ Tick
  \/ Sweep
  \/ emitStats
  \/ reset

Spec == Init /\ [][Next]_vars

\* the same synchronizer fed with the timestamps of Scenario A and neighbours
ScenarioTimestampsUs == {500000, 530000, 560000, 580500}

NextScenarioA ==
  \/ \E ts \in ScenarioTimestampsUs : addAudioPacket(ts)
  \/ \E ts \in ScenarioTimestampsUs : addVideoPacket(ts)
  \/ Tick
  \/ Sweep
  \/ emitStats
  \/ reset

SpecScenarioA == Init /\ [][NextScenarioA]_vars

\* the same synchronizer fed with a longer run of packets that all lie within
\* max_jitter_ms of one another, so that several pairs are matched in a row
BurstTimestampsUs == {0, 30500}

NextBurst ==
  \/ \E ts \in BurstTimestampsUs :
       sent < MaxBurstPackets /\ now \in ArrivalTimes /\ addAudioPacketCall(ts)
  \/ \E ts \in BurstTimestampsUs :
       sent < MaxBurstPackets /\ now \in ArrivalTimes /\ addVideoPacketCall(ts)
  \/ Tick
  \/ Sweep
  \/ emitStats
  \/ reset

SpecBurst == Init /\ [][NextBurst]_vars

(* ---------------- topics and patterns ---------------- *)
\* A topic or a pattern is a sequence of atoms.  An atom of one character
\* ("/", "+", ".", "a") stands for that character; a longer atom stands
\* for a word of letters and digits that is no concatenation of other atoms.
Slash == "/"

SingleChars == {"a", "/", "+", "."}

RECURSIVE Join(_)
Join(segments) ==
  IF Len(segments) = 0 THEN <<>>
  ELSE IF Len(segments) = 1 THEN <<Head(segments)>>
  ELSE <<Head(segments), Slash>> \o Join(Tail(segments))

\* pattern.replace(/\+/g, '[^/]+') read as a regular expression: every "+"
\* becomes the class [^/]+, "." is the regular expression's any-character,
\* every other atom stands for itself
RegexToken(atom) ==
  IF atom = "+" THEN "[^/]+"
  ELSE IF atom = "." THEN "any"
  ELSE "literal"

\* new RegExp('^' + ... + '$').test(topic), from position i of the pattern
\* and position j of the topic on
RECURSIVE RegexTestFrom(_, _, _, _)
RegexTestFrom(pattern, i, topic, j) ==
  IF i > Len(pattern) THEN j > Len(topic)
  ELSE LET tok == RegexToken(pattern[i])
       IN  IF tok = "literal"
           THEN j <= Len(topic) /\ topic[j] = pattern[i]
                  /\ RegexTestFrom(pattern, i + 1, topic, j + 1)
           ELSE IF tok = "any"
           THEN j <= Len(topic) /\ topic[j] \in SingleChars
                  /\ RegexTestFrom(pattern, i + 1, topic, j + 1)
           ELSE \E k \in j..Len(topic) :
                  /\ \A m \in j..k : topic[m] # Slash
                  /\ RegexTestFrom(pattern, i + 1, topic, k + 1)

RegexTest(pattern, topic) == RegexTestFrom(pattern, 1, topic, 1)

\* topic.split('/')
RECURSIVE Split(_)
Split(text) ==
  IF \A i \in 1..Len(text) : text[i] # Slash THEN <<text>>
  ELSE LET k == CHOOSE i \in 1..Len(text) :
                  text[i] = Slash /\ \A j \in 1..(i - 1) : text[j] # Slash
       IN  <<SubSeq(text, 1, k - 1)>> \o Split(SubSeq(text, k + 1, Len(text)))

\* the callbacks subscribeToTopics of the interphone handler registers
HandlerCallbacks ==
  {"handleAudioStream", "handleVideoStream", "handleIncomingCall", "handleCallControl"}

HandlerPatterns ==
  <<[pattern |-> Join(<<"breeze", "devices", "+", "streams", "audio">>),
     callback |-> "handleAudioStream"],
    [pattern |-> Join(<<"breeze", "devices", "+", "streams", "video">>),
     callback |-> "handleVideoStream"],
    [pattern |-> Join(<<"breeze", "devices", "+", "interphone", "incoming">>),
     callback |-> "handleIncomingCall"],
    [pattern |-> Join(<<"breeze", "devices", "+", "interphone", "control">>),
     callback |-> "handleCallControl"]>>

\* topicCallbacks after the registration part of subscribeToTopic
Register(map, pattern, callback) ==
  IF \E i \in 1..Len(map) : map[i].pattern = pattern
  THEN [i \in 1..Len(map) |->
          IF map[i].pattern = pattern
          THEN [map[i] EXCEPT !.callbacks = Append(@, callback)]
          ELSE map[i]]
  ELSE Append(map, [pattern |-> pattern, callbacks |-> <<callback>>])

RECURSIVE RegisterAll(_, _)
RegisterAll(map, entries) ==
  IF entries = <<>> THEN map
  ELSE RegisterAll(Register(map, Head(entries).pattern, Head(entries).callback),
                   Tail(entries))

(* ---------------- the handler's operations ---------------- *)
EventTypes == {"INCOMING_CALL", "CALL_ANSWERED", "CALL_ENDED", "CALL_TIMEOUT"}

\* the stream packets carry one timestamp, so any audio and any video packet
\* handed to one synchronizer match
StreamTimestampsUs == {0}

\* MQTTManager.publish(topic, message): nothing is handed to the client when
\* it is not connected; otherwise the client's callback reports an error or not
PublishOutcomes == IF isConnected THEN {"sent", "error"} ELSE {"notConnected"}

\* mqttManager.publish(MQTT_TOPICS.CALL_CONTROL(deviceId), JSON.stringify(event))
PublishControl(deviceId, event_type, outcome) ==
  Effect("publish", deviceId, "interphone/control", event_type, "", outcome)

\* callEventListeners.forEach(listener => listener(event))
RECURSIVE NotifyListeners(_, _, _)
NotifyListeners(listeners, deviceId, event_type) ==
  IF listeners = <<>> THEN <<>>
  ELSE <<Effect("notify", deviceId, "", event_type, Head(listeners), "")>>
         \o NotifyListeners(Tail(listeners), deviceId, event_type)

\* getSynchronizer that constructs a synchronizer on every call
getSynchronizer_AlwaysNew(syncs, n, deviceId) ==
  [synchronizers |-> [syncs EXCEPT ![deviceId] = NewSynchronizer(n + 1)],
   created |-> n + 1]

\* getSynchronizer(deviceId): the map and the construction count afterwards
getSynchronizer(syncs, n, deviceId) ==
  IF syncs[deviceId] = NoSynchronizer
  THEN [synchronizers |-> [syncs EXCEPT ![deviceId] = NewSynchronizer(n + 1)],
        created |-> n + 1]
  ELSE [synchronizers |-> syncs, created |-> n]

\* the body of endCall(deviceId): the active set afterwards; the branch on
\* the synchronizer is empty in the code
EndCallActive(deviceId) == activeDevices \ {deviceId}

\* connect(): the client is created once
connect ==
  /\ ~client
  /\ client' = TRUE
  /\ lastMessage' = NoMessage("connect")
  /\ UNCHANGED <<topicCallbacks, deviceStore>>
  /\ lastCall' = NoCall("MQTTManager")
  /\ UNCHANGED <<syncVars, handlerState, socketVars, extVars>>

\* the 'connect' event of the client
transportConnect ==
  /\ client
  /\ ~isConnected
  /\ isConnected' = TRUE
  /\ lastCall' = NoCall("connect")
  /\ UNCHANGED <<activeDevices, synchronizers, devices, callEventListeners,
                 subscribed, created, streamed>>
  /\ UNCHANGED syncVars
  /\ UNCHANGED outerVars

\* the 'close' and 'error' events of the client
transportClose ==
  /\ isConnected
  /\ isConnected' = FALSE
  /\ lastCall' = NoCall("close")
  /\ UNCHANGED <<activeDevices, synchronizers, devices, callEventListeners,
                 subscribed, created, streamed>>
  /\ UNCHANGED syncVars
  /\ UNCHANGED outerVars

\* checkConnection that goes on polling after it has subscribed
checkConnection_KeepsPolling ==
  /\ isConnected
  /\ subscribed' = TRUE
  /\ topicCallbacks' = RegisterAll(topicCallbacks, HandlerPatterns)
  /\ lastCall' = NoCall("subscribeToTopics")
  /\ UNCHANGED <<activeDevices, synchronizers, devices, callEventListeners,
                 isConnected, created, streamed>>
  /\ UNCHANGED <<client, deviceStore, lastMessage>>
  /\ UNCHANGED syncVars
  /\ UNCHANGED <<socketVars, extVars>>

\* checkConnection of initializeWhenConnected, on the poll that finds the
\* client connected
checkConnection ==
  /\ ~subscribed
  /\ isConnected
  /\ subscribed' = TRUE
  /\ topicCallbacks' = RegisterAll(topicCallbacks, HandlerPatterns)
  /\ lastCall' = NoCall("subscribeToTopics")
  /\ UNCHANGED <<activeDevices, synchronizers, devices, callEventListeners,
                 isConnected, created, streamed>>
  /\ UNCHANGED <<client, deviceStore, lastMessage>>
  /\ UNCHANGED syncVars
  /\ UNCHANGED <<socketVars, extVars>>

\* onCallEvent(callback), each callback being registered at most once
onCallEvent(callback) ==
  /\ Len(callEventListeners) < MaxListeners
  /\ callback \notin Range(callEventListeners)
  /\ callEventListeners' = Append(callEventListeners, callback)
  /\ lastCall' = Call("onCallEvent", "", TRUE, "", <<>>)
  /\ UNCHANGED <<activeDevices, synchronizers, devices, isConnected,
                 subscribed, created, streamed>>
  /\ UNCHANGED syncVars
  /\ UNCHANGED outerVars

registerDevice(deviceId) ==
  /\ devices' = devices \cup {deviceId}
  /\ lastCall' = Call("registerDevice", deviceId, TRUE, "", <<>>)
  /\ UNCHANGED <<activeDevices, synchronizers, callEventListeners, isConnected,
                 subscribed, created, streamed>>
  /\ UNCHANGED syncVars
  /\ UNCHANGED outerVars

endCall(deviceId) ==
  /\ activeDevices' = EndCallActive(deviceId)
  /\ lastCall' = Call("endCall", deviceId, TRUE, "",
                      <<EndCallEffect(deviceId)>>)
  /\ UNCHANGED <<synchronizers, devices, callEventListeners, isConnected,
                 subscribed, created, streamed>>
  /\ UNCHANGED syncVars
  /\ UNCHANGED outerVars

unregisterDevice(deviceId) ==
  /\ devices' = devices \ {deviceId}
  /\ activeDevices' = EndCallActive(deviceId)
  /\ lastCall' = Call("unregisterDevice", deviceId, TRUE, "",
                      <<EndCallEffect(deviceId)>>)
  /\ UNCHANGED <<synchronizers, callEventListeners, isConnected,
                 subscribed, created, streamed>>
  /\ UNCHANGED syncVars
  /\ UNCHANGED outerVars

\* answerCall that also marks the device active
answerCall_MarksActive(deviceId) ==
  \E outcome \in PublishOutcomes :
    /\ activeDevices' = activeDevices \cup {deviceId}
    /\ lastCall' = Call("answerCall", deviceId, TRUE, "CALL_ANSWERED",
                        <<PublishControl(deviceId, "CALL_ANSWERED", outcome)>>)
    /\ UNCHANGED <<synchronizers, devices, callEventListeners,
                   isConnected, subscribed, created, streamed>>
    /\ UNCHANGED syncVars
    /\ UNCHANGED outerVars

answerCall(deviceId) ==
  \E outcome \in PublishOutcomes :
    /\ lastCall' = Call("answerCall", deviceId, TRUE, "CALL_ANSWERED",
                        <<PublishControl(deviceId, "CALL_ANSWERED", outcome)>>)
    /\ UNCHANGED <<activeDevices, synchronizers, devices, callEventListeners,
                   isConnected, subscribed, created, streamed>>
    /\ UNCHANGED syncVars
    /\ UNCHANGED outerVars

\* rejectCall that ends the call only once the message has been sent
rejectCall_EndsWhenSent(deviceId) ==
  \E outcome \in PublishOutcomes :
    /\ activeDevices' = IF outcome = "sent" THEN EndCallActive(deviceId)
                                            ELSE activeDevices
    /\ lastCall' = Call("rejectCall", deviceId, TRUE, "CALL_ENDED",
                        <<PublishControl(deviceId, "CALL_ENDED", outcome)>>
                          \o (IF outcome = "sent"
                              THEN <<EndCallEffect(deviceId)>>
                              ELSE <<>>))
    /\ UNCHANGED <<synchronizers, devices, callEventListeners, isConnected,
                   subscribed, created, streamed>>
    /\ UNCHANGED syncVars
    /\ UNCHANGED outerVars

rejectCall(deviceId) ==
  \E outcome \in PublishOutcomes :
    /\ activeDevices' = EndCallActive(deviceId)
    /\ lastCall' = Call("rejectCall", deviceId, TRUE, "CALL_ENDED",
                        <<PublishControl(deviceId, "CALL_ENDED", outcome),
                          EndCallEffect(deviceId)>>)
    /\ UNCHANGED <<synchronizers, devices, callEventListeners, isConnected,
                   subscribed, created, streamed>>
    /\ UNCHANGED syncVars
    /\ UNCHANGED outerVars

\* handleIncomingCall(topic, message), topic naming deviceId; decodable
\* says whether JSON.parse(message) returns
\* handleIncomingCall that marks the device active before it decodes the
\* message
handleIncomingCall_ActivatesBeforeParse(deviceId, decodable, event_type) ==
  /\ subscribed /\ isConnected
  /\ activeDevices' = activeDevices \cup {deviceId}
  /\ IF decodable
     THEN LET g == getSynchronizer(synchronizers, created, deviceId)
          IN  /\ synchronizers' = g.synchronizers
              /\ created' = g.created
              /\ lastCall' = Call("handleIncomingCall", deviceId, TRUE, event_type,
                    <<Effect("activate", deviceId, "", "", "", ""),
                      Effect("getSynchronizer", deviceId, "", "", "", "")>>
                    \o NotifyListeners(callEventListeners, deviceId, event_type))
     ELSE /\ lastCall' = Call("handleIncomingCall", deviceId, FALSE, "", <<>>)
          /\ UNCHANGED <<synchronizers, created>>
  /\ UNCHANGED <<devices, callEventListeners, isConnected, subscribed, streamed>>
  /\ UNCHANGED syncVars
  /\ UNCHANGED outerVars

handleIncomingCall(deviceId, decodable, event_type) ==
  /\ subscribed /\ isConnected
  /\ IF decodable
     THEN LET g == getSynchronizer(synchronizers, created, deviceId)
          IN  /\ activeDevices' = activeDevices \cup {deviceId}
              /\ synchronizers' = g.synchronizers
              /\ created' = g.created
              /\ lastCall' = Call("handleIncomingCall", deviceId, TRUE, event_type,
                    <<Effect("activate", deviceId, "", "", "", ""),
                      Effect("getSynchronizer", deviceId, "", "", "", "")>>
                    \o NotifyListeners(callEventListeners, deviceId, event_type))
     ELSE /\ lastCall' = Call("handleIncomingCall", deviceId, FALSE, "", <<>>)
          /\ UNCHANGED <<activeDevices, synchronizers, created>>
  /\ UNCHANGED <<devices, callEventListeners, isConnected, subscribed, streamed>>
  /\ UNCHANGED syncVars
  /\ UNCHANGED outerVars

\* handleCallControl that ends the call whatever the event type
handleCallControl_EndsOnAny(deviceId, decodable, event_type) ==
  /\ subscribed /\ isConnected
  /\ IF decodable
     THEN /\ activeDevices' = EndCallActive(deviceId)
          /\ lastCall' = Call("handleCallControl", deviceId, TRUE, event_type,
                <<EndCallEffect(deviceId)>>
                \o NotifyListeners(callEventListeners, deviceId, event_type))
     ELSE /\ lastCall' = Call("handleCallControl", deviceId, FALSE, "", <<>>)
          /\ UNCHANGED activeDevices
  /\ UNCHANGED <<synchronizers, devices, callEventListeners, isConnected,
                 subscribed, created, streamed>>
  /\ UNCHANGED syncVars
  /\ UNCHANGED outerVars

\* the body of handleCallControl, on the handler's own fields
CallControl(deviceId, decodable, event_type) ==
  /\ subscribed /\ isConnected
  /\ IF decodable
     THEN /\ activeDevices' = IF event_type = "CALL_ENDED"
                              THEN EndCallActive(deviceId) ELSE activeDevices
          /\ lastCall' = Call("handleCallControl", deviceId, TRUE, event_type,
                (IF event_type = "CALL_ENDED"
                 THEN <<EndCallEffect(deviceId)>> ELSE <<>>)
                \o NotifyListeners(callEventListeners, deviceId, event_type))
     ELSE /\ lastCall' = Call("handleCallControl", deviceId, FALSE, "", <<>>)
          /\ UNCHANGED activeDevices
  /\ UNCHANGED <<synchronizers, devices, callEventListeners, isConnected,
                 subscribed, created, streamed>>
  /\ UNCHANGED syncVars

handleCallControl(deviceId, decodable, event_type) ==
  /\ CallControl(deviceId, decodable, event_type)
  /\ UNCHANGED outerVars

\* the control event the last answerCall or rejectCall handed to the client
Published ==
  [device |-> lastCall.device, event_type |-> lastCall.event_type]

\* the broker takes the control event just published and routes it to the
\* subscriptions that match its topic, the handler's own
\* breeze/devices/+/interphone/control among them
brokerRoute ==
  /\ subscribed
  /\ lastCall.op \in {"answerCall", "rejectCall"}
  /\ lastCall.effects[1].kind = "publish"
  /\ lastCall.effects[1].outcome = "sent"
  /\ Published \notin inFlight
  /\ inFlight' = inFlight \cup {Published}
  /\ UNCHANGED <<syncVars, handlerVars, routerVars, socketVars, storeVars>>

\* the 'message' event for a control event the handler published itself
deliverEcho(m) ==
  /\ m \in inFlight
  /\ CallControl(m.device, TRUE, m.event_type)
  /\ inFlight' = inFlight \ {m}
  /\ UNCHANGED <<routerVars, socketVars, storeVars>>

\* the frames a device's synchronizer hands to the listener getSynchronizer
\* registered on it
RECURSIVE SyncedFrameEffects(_, _)
SyncedFrameEffects(deviceId, frames) ==
  IF frames = <<>> THEN <<>>
  ELSE <<Effect("syncedFrame", deviceId, "", "", "",
                IF Head(frames).complete THEN "complete" ELSE "incomplete")>>
         \o SyncedFrameEffects(deviceId, Tail(frames))

\* the frames as the frame listener of deviceId's synchronizer receives them
Logged(deviceId, frames) ==
  [i \in 1..Len(frames) |-> [deviceId |-> deviceId, frame |-> frames[i]]]

\* the connections that are in the room interphone:{deviceId}
Room(deviceId) == {c \in Connections : deviceId \in rooms[c]}

\* a record that says hasAudio whatever the frame holds
FrameData_AlwaysAudio(deviceId, frame) ==
  [deviceId |-> deviceId,
   timestamp |-> frame.timestamp,
   hasAudio |-> TRUE,
   hasVideo |-> frame.video # NULL,
   audio |-> IF frame.audio # NULL THEN [data |-> frame.audio.data] ELSE NULL,
   video |-> IF frame.video # NULL THEN [data |-> frame.video.data] ELSE NULL]

\* the record broadcastSyncedFrame builds from a frame
FrameData(deviceId, frame) ==
  [deviceId |-> deviceId,
   timestamp |-> frame.timestamp,
   hasAudio |-> frame.audio # NULL,
   hasVideo |-> frame.video # NULL,
   audio |-> IF frame.audio # NULL THEN [data |-> frame.audio.data] ELSE NULL,
   video |-> IF frame.video # NULL THEN [data |-> frame.video.data] ELSE NULL]

\* broadcastSyncedFrame that emits to every connection
broadcastSyncedFrame_ToEveryone(deviceId, frame) ==
  IF ~socketIOServer THEN <<>>
  ELSE <<[event |-> "syncedFrame", room |-> deviceId, to |-> Connections,
          data |-> FrameData(deviceId, frame)]>>

\* broadcastSyncedFrame(deviceId, frame): the events it puts on the wire;
\* to is the set of connections in the room when it emits
broadcastSyncedFrame(deviceId, frame) ==
  IF ~socketIOServer THEN <<>>
  ELSE <<[event |-> "syncedFrame", room |-> deviceId, to |-> Room(deviceId),
          data |-> FrameData(deviceId, frame)]>>

\* the frame listener of getSynchronizer, called once per emitted frame in
\* emission order
RECURSIVE Broadcast(_, _)
Broadcast(deviceId, frames) ==
  IF frames = <<>> THEN <<>>
  ELSE broadcastSyncedFrame(deviceId, Head(frames))
         \o Broadcast(deviceId, Tail(frames))

\* a server that delivers the events of a call ahead of those emitted before
Emit_Prepend(sent_, events) == events \o sent_

\* socketIOServer.to(room).emit: the events on the wire after a call emitted
\* events, in emission order
Emit(sent_, events) == sent_ \o events

\* the synchronizer a stream packet of deviceId is handed to, in a handler
\* that keeps a single synchronizer for all devices
Target_Shared(deviceId) == CHOOSE d \in DeviceIds : TRUE

\* the key under which handleAudioStream/handleVideoStream look the
\* synchronizer up: the device id of the topic
Target(deviceId) == deviceId

\* the rest of handleAudioStream/handleVideoStream once the packet is
\* decoded: getSynchronizer, then the add with the buffers ab, vb it leaves
\* to trySync
HandleStream(name, deviceId, g, ab, vb) ==
  \E s \in {g.synchronizers[deviceId]} :
    \E r \in {trySync(ab, vb, [s.stats EXCEPT !.packets_received = @ + 1], now)} :
      /\ synchronizers' = [g.synchronizers EXCEPT ![deviceId] =
                             [s EXCEPT !.audioBuffer = r.audioBuffer,
                                       !.videoBuffer = r.videoBuffer,
                                       !.stats = r.stats]]
      /\ created' = g.created
      /\ streamed' = streamed + 1
      /\ frameLog' = frameLog \o Logged(deviceId, r.frames)
      /\ wire' = Emit(wire, Broadcast(deviceId, r.frames))
      /\ lastCall' = Call(name, deviceId, TRUE, "",
                          <<Effect("getSynchronizer", deviceId, "", "", "", "")>>
                          \o SyncedFrameEffects(deviceId, r.frames))

\* handleAudioStream(topic, message) for a topic of device deviceId
handleAudioStreamCall(deviceId, decodable, ts) ==
  /\ subscribed /\ isConnected
  /\ IF decodable
     THEN LET key == Target(deviceId)
              g == getSynchronizer(synchronizers, created, key)
              s == g.synchronizers[key]
              packet == [stream_type |-> "AUDIO", sequence_num |-> streamed + 1,
                         timestamp_us |-> ts, device_id |-> deviceId,
                         data |-> streamed + 1]
              buffered == [packet |-> packet, received_at |-> now]
          IN  HandleStream("handleAudioStream", key, g,
                           SortByTimestamp(Append(s.audioBuffer, buffered)),
                           s.videoBuffer)
     ELSE /\ lastCall' = Call("handleAudioStream", deviceId, FALSE, "", <<>>)
          /\ UNCHANGED <<synchronizers, created, streamed, frameLog, wire>>
  /\ UNCHANGED <<activeDevices, devices, callEventListeners, isConnected, subscribed>>
  /\ UNCHANGED syncVars
  /\ UNCHANGED <<routerVars, socketIOServer, rooms, extVars>>

handleAudioStream(deviceId, decodable, ts) ==
  /\ streamed < MaxStreamPackets
  /\ handleAudioStreamCall(deviceId, decodable, ts)

\* handleVideoStream(topic, message) for a topic of device deviceId
handleVideoStreamCall(deviceId, decodable, ts) ==
  /\ subscribed /\ isConnected
  /\ IF decodable
     THEN LET key == Target(deviceId)
              g == getSynchronizer(synchronizers, created, key)
              s == g.synchronizers[key]
              packet == [stream_type |-> "VIDEO", sequence_num |-> streamed + 1,
                         timestamp_us |-> ts, device_id |-> deviceId,
                         data |-> streamed + 1]
              buffered == [packet |-> packet, received_at |-> now]
          IN  HandleStream("handleVideoStream", key, g,
                           s.audioBuffer,
                           SortByTimestamp(Append(s.videoBuffer, buffered)))
     ELSE /\ lastCall' = Call("handleVideoStream", deviceId, FALSE, "", <<>>)
          /\ UNCHANGED <<synchronizers, created, streamed, frameLog, wire>>
  /\ UNCHANGED <<activeDevices, devices, callEventListeners, isConnected, subscribed>>
  /\ UNCHANGED syncVars
  /\ UNCHANGED <<routerVars, socketIOServer, rooms, extVars>>

handleVideoStream(deviceId, decodable, ts) ==
  /\ streamed < MaxStreamPackets
  /\ handleVideoStreamCall(deviceId, decodable, ts)

\* setSocketServer(io), called once by setupSocketServer
setSocketServer ==
  /\ ~socketIOServer
  /\ socketIOServer' = TRUE
  /\ lastCall' = Call("setSocketServer", "", TRUE, "", <<>>)
  /\ UNCHANGED <<rooms, frameLog, wire>>
  /\ UNCHANGED <<syncVars, handlerState, routerVars, extVars>>

\* the 'subscribeToDevice' event of a connection: join the room, then send
\* deviceStatus to that connection if getDevice(deviceId) has the device
subscribeToDevice(connection, deviceId) ==
  /\ socketIOServer
  /\ rooms' = [rooms EXCEPT ![connection] = @ \cup {deviceId}]
  /\ lastCall' = Call("subscribeToDevice", deviceId, TRUE, "",
        <<Effect("join", deviceId, "", "", connection, "")>>
        \o (IF deviceId \in devices
            THEN <<Effect("deviceStatus", deviceId, "", "", connection,
                          IF deviceId \in activeDevices THEN "active" ELSE "inactive")>>
            ELSE <<>>))
  /\ UNCHANGED <<socketIOServer, frameLog, wire>>
  /\ UNCHANGED <<syncVars, handlerState, routerVars, extVars>>

\* the 'unsubscribeFromDevice' event of a connection
unsubscribeFromDevice(connection, deviceId) ==
  /\ socketIOServer
  /\ rooms' = [rooms EXCEPT ![connection] = @ \ {deviceId}]
  /\ lastCall' = Call("unsubscribeFromDevice", deviceId, TRUE, "",
        <<Effect("leave", deviceId, "", "", connection, "")>>)
  /\ UNCHANGED <<socketIOServer, frameLog, wire>>
  /\ UNCHANGED <<syncVars, handlerState, routerVars, extVars>>

\* the sweep interval of the synchronizer held for deviceId fires
sweepTick(deviceId) ==
  /\ synchronizers[deviceId] # NoSynchronizer
  /\ synchronizers[deviceId].sweepTimer
  /\ synchronizers' = [synchronizers EXCEPT ![deviceId] =
       [@ EXCEPT !.audioBuffer = cleanupBuffers(@, now),
                 !.videoBuffer = cleanupBuffers(@, now)]]
  /\ lastCall' = Call("sweepTick", deviceId, TRUE, "", <<>>)
  /\ UNCHANGED <<activeDevices, devices, callEventListeners, isConnected,
                 subscribed, created, streamed>>
  /\ UNCHANGED syncVars
  /\ UNCHANGED outerVars

\* the statistics interval of the synchronizer held for deviceId fires
statsTick(deviceId) ==
  /\ synchronizers[deviceId] # NoSynchronizer
  /\ synchronizers[deviceId].statsTimer
  /\ synchronizers' = [synchronizers EXCEPT ![deviceId] =
       [@ EXCEPT !.stats.current_latency =
          calculateCurrentLatency(synchronizers[deviceId].audioBuffer,
                                  synchronizers[deviceId].videoBuffer, now)]]
  /\ lastCall' = Call("statsTick", deviceId, TRUE, "", <<>>)
  /\ UNCHANGED <<activeDevices, devices, callEventListeners, isConnected,
                 subscribed, created, streamed>>
  /\ UNCHANGED syncVars
  /\ UNCHANGED outerVars

NextHandler ==
  \/ connect
  \/ transportConnect
  \/ transportClose
  \/ checkConnection
  \/ \E callback \in Listeners : onCallEvent(callback)
  \/ \E deviceId \in DeviceIds : registerDevice(deviceId)
  \/ \E deviceId \in DeviceIds : unregisterDevice(deviceId)
  \/ \E deviceId \in DeviceIds : endCall(deviceId)
  \/ \E deviceId \in DeviceIds : answerCall(deviceId)
  \/ \E deviceId \in DeviceIds : rejectCall(deviceId)
  \/ \E deviceId \in DeviceIds, decodable \in BOOLEAN, event_type \in EventTypes :
       handleIncomingCall(deviceId, decodable, event_type)
  \/ \E deviceId \in DeviceIds, decodable \in BOOLEAN, event_type \in EventTypes :
       handleCallControl(deviceId, decodable, event_type)
  \/ \E deviceId \in DeviceIds, decodable \in BOOLEAN, ts \in StreamTimestampsUs :
       handleAudioStream(deviceId, decodable, ts)
  \/ \E deviceId \in DeviceIds, decodable \in BOOLEAN, ts \in StreamTimestampsUs :
       handleVideoStream(deviceId, decodable, ts)
  \/ \E deviceId \in DeviceIds : sweepTick(deviceId)
  \/ \E deviceId \in DeviceIds : statsTick(deviceId)

SpecHandler == Init /\ [][NextHandler]_vars

\* the handler with a socket server: streams and rooms
NextSocket ==
  \/ connect
  \/ transportConnect
  \/ checkConnection
  \/ setSocketServer
  \/ \E connection \in Connections, deviceId \in DeviceIds :
       subscribeToDevice(connection, deviceId)
  \/ \E connection \in Connections, deviceId \in DeviceIds :
       unsubscribeFromDevice(connection, deviceId)
  \/ \E deviceId \in DeviceIds, ts \in StreamTimestampsUs :
       /\ streamed < MaxSocketPackets
       /\ handleAudioStreamCall(deviceId, TRUE, ts)
  \/ \E deviceId \in DeviceIds, ts \in StreamTimestampsUs :
       /\ streamed < MaxSocketPackets
       /\ handleVideoStreamCall(deviceId, TRUE, ts)

SpecSocket == Init /\ [][NextSocket]_vars

\* the handler with a socket server: registration, calls and subscriptions
NextStatus ==
  \/ connect
  \/ transportConnect
  \/ checkConnection
  \/ setSocketServer
  \/ \E deviceId \in DeviceIds : registerDevice(deviceId)
  \/ \E deviceId \in DeviceIds : unregisterDevice(deviceId)
  \/ \E deviceId \in DeviceIds, event_type \in EventTypes :
       handleIncomingCall(deviceId, TRUE, event_type)
  \/ \E deviceId \in DeviceIds : endCall(deviceId)
  \/ \E connection \in Connections, deviceId \in DeviceIds :
       subscribeToDevice(connection, deviceId)
  \/ \E connection \in Connections, deviceId \in DeviceIds :
       unsubscribeFromDevice(connection, deviceId)

SpecStatus == Init /\ [][NextStatus]_vars

(* ---------------- the router's operations ---------------- *)
CustomCallbacks == {"cb1", "cb2"}

RouterPatterns ==
  {Join(<<"breeze", "devices", "+", "status">>),
   Join(<<"breeze", "devices", "cam1", "+">>)}

RouterTopics ==
  {Join(<<"breeze", "devices", "cam1", "status">>),
   Join(<<"breeze", "devices", "cam1", "state">>),
   Join(<<"breeze", "devices", "cam2", "status">>),
   Join(<<"breeze", "devices", "cam2", "discovery">>),
   Join(<<"breeze", "cam2", "state">>),
   Join(<<"breeze", "devices", "cam1", "other">>),
   Join(<<"breeze", "devices", "door", "streams", "audio">>),
   Join(<<"breeze", "devices", "door", "interphone", "incoming">>),
   Join(<<"breeze">>)}

\* what JSON.parse(messageStr) gives: an object with an id, an object
\* without id, name and type, or a failure (plain text)
PayloadKinds == {"jsonWithId", "json", "text"}

\* the id inside a "jsonWithId" payload
PayloadId == <<"cam2">>

PublishTopics == {Join(<<"breeze", "devices", "cam1", "interphone", "control">>)}

\* the outcome the client reports to the callback of client.publish
ClientOutcomes == {"success", "error"}

\* the number of registrations made through subscribeToTopic by callers
\* other than the interphone handler
RECURSIVE CustomRegistrations(_)
CustomRegistrations(map) ==
  IF map = <<>> THEN 0
  ELSE Len(SelectSeq(Head(map).callbacks, LAMBDA c : c \in CustomCallbacks))
         + CustomRegistrations(Tail(map))

RECURSIVE CallbacksOf(_, _)
CallbacksOf(pattern, callbacks) ==
  IF callbacks = <<>> THEN <<>>
  ELSE <<[pattern |-> pattern, callback |-> Head(callbacks)]>>
         \o CallbacksOf(pattern, Tail(callbacks))

\* the loop of handleMessage that stops at the first matching pattern
RECURSIVE Invoked_FirstPatternOnly(_, _)
Invoked_FirstPatternOnly(map, topic) ==
  IF map = <<>> THEN <<>>
  ELSE IF RegexTest(Head(map).pattern, topic)
       THEN CallbacksOf(Head(map).pattern, Head(map).callbacks)
       ELSE Invoked_FirstPatternOnly(Tail(map), topic)

\* the loop over topicCallbacks of handleMessage: the callbacks called, in order
RECURSIVE Invoked(_, _)
Invoked(map, topic) ==
  IF map = <<>> THEN <<>>
  ELSE (IF RegexTest(Head(map).pattern, topic)
        THEN CallbacksOf(Head(map).pattern, Head(map).callbacks)
        ELSE <<>>)
       \o Invoked(Tail(map), topic)

\* the device id handleMessage extracts from the topic ('' when it cannot)
ExtractedDeviceId(topic) ==
  LET topicParts == Split(topic)
  IN  IF Len(topicParts) >= 3
      THEN IF topicParts[2] = <<"devices">> THEN topicParts[3] ELSE topicParts[2]
      ELSE <<>>

\* the branch the default routing of handleMessage takes
DefaultRoute(topic, payload) ==
  LET topicParts == Split(topic)
      lastPart == topicParts[Len(topicParts)]
      secondLastPart == IF Len(topicParts) > 1 THEN topicParts[Len(topicParts) - 1] ELSE <<>>
  IN  IF ExtractedDeviceId(topic) = <<>> THEN "noDeviceId"
      ELSE IF secondLastPart = <<"streams">> /\ lastPart \in {<<"audio">>, <<"video">>}
      THEN "interphoneStream"
      ELSE IF secondLastPart = <<"interphone">> THEN "interphoneEvent"
      ELSE IF lastPart = <<"discovery">> THEN "addOrUpdateDevice"
      ELSE IF lastPart = <<"status">> THEN "updateDeviceStatus"
      ELSE IF lastPart = <<"state">> THEN "updateDeviceState"
      ELSE IF payload = "jsonWithId" THEN "addOrUpdateDevice"
      ELSE "updateDeviceStatus"

\* the id under which the default routing stores the device
StoredId(topic, payload, route) ==
  IF route = "addOrUpdateDevice" /\ payload = "jsonWithId"
  THEN PayloadId ELSE ExtractedDeviceId(topic)

StoreRoutes == {"addOrUpdateDevice", "updateDeviceStatus", "updateDeviceState"}

subscribeToTopic(pattern, callback) ==
  /\ CustomRegistrations(topicCallbacks) < MaxRegistrations
  /\ IF ~client \/ ~isConnected
     THEN /\ lastMessage' = [NoMessage("subscribeToTopic") EXCEPT
                               !.pattern = pattern, !.result = "notConnected"]
          /\ UNCHANGED topicCallbacks
     ELSE /\ topicCallbacks' = Register(topicCallbacks, pattern, callback)
          /\ lastMessage' = [NoMessage("subscribeToTopic") EXCEPT
                               !.pattern = pattern, !.result = "registered"]
  /\ UNCHANGED <<client, deviceStore>>
  /\ lastCall' = NoCall("MQTTManager")
  /\ UNCHANGED <<syncVars, handlerState, socketVars, extVars>>

\* handleMessage(topic, message) for a topic that none of the interphone
\* handler's own patterns is registered for; a delivery to one of those is
\* one of handleAudioStream, handleVideoStream, handleIncomingCall and
\* handleCallControl
handleMessage(topic, payload) ==
  /\ client /\ isConnected
  /\ \E invoked \in {Invoked(topicCallbacks, topic)} :
       \E route \in {IF invoked # <<>> THEN "custom" ELSE DefaultRoute(topic, payload)} :
         /\ \A i \in 1..Len(invoked) : invoked[i].callback \notin HandlerCallbacks
         /\ lastMessage' = [NoMessage("handleMessage") EXCEPT
                              !.topic = topic, !.payload = payload,
                              !.invoked = invoked, !.route = route,
                              !.deviceId = IF route = "custom" THEN <<>>
                                           ELSE ExtractedDeviceId(topic)]
         /\ deviceStore' = IF route \in StoreRoutes
                           THEN deviceStore \cup {StoredId(topic, payload, route)}
                           ELSE deviceStore
  /\ UNCHANGED <<client, topicCallbacks>>
  /\ lastCall' = NoCall("MQTTManager")
  /\ UNCHANGED <<syncVars, handlerState, socketVars, extVars>>

\* the value the promise of publish / publishCommand resolves to, and
\* whether client.publish was called
PublishResult(outcome) ==
  IF ~isConnected \/ ~client
  THEN [result |-> "false", route |-> ""]
  ELSE [result |-> IF outcome = "success" THEN "true" ELSE "false",
        route |-> "client.publish"]

\* publish that resolves to true once the message is handed to the client
publish_TrueWhenHanded(topic, outcome) ==
  /\ lastMessage' = [NoMessage("publish") EXCEPT
                       !.topic = topic, !.payload = outcome,
                       !.route = PublishResult(outcome).route,
                       !.result = IF PublishResult(outcome).route = "" THEN "false" ELSE "true"]
  /\ UNCHANGED <<client, topicCallbacks, deviceStore>>
  /\ lastCall' = NoCall("MQTTManager")
  /\ UNCHANGED <<syncVars, handlerState, socketVars, extVars>>

publish(topic, outcome) ==
  /\ lastMessage' = [NoMessage("publish") EXCEPT
                       !.topic = topic, !.payload = outcome,
                       !.route = PublishResult(outcome).route,
                       !.result = PublishResult(outcome).result]
  /\ UNCHANGED <<client, topicCallbacks, deviceStore>>
  /\ lastCall' = NoCall("MQTTManager")
  /\ UNCHANGED <<syncVars, handlerState, socketVars, extVars>>

publishCommand(deviceId, command, outcome) ==
  /\ lastMessage' = [NoMessage("publishCommand") EXCEPT
                       !.topic = Join(<<"breeze", "devices", deviceId, "command", command>>),
                       !.payload = outcome,
                       !.route = PublishResult(outcome).route,
                       !.result = PublishResult(outcome).result]
  /\ UNCHANGED <<client, topicCallbacks, deviceStore>>
  /\ lastCall' = NoCall("MQTTManager")
  /\ UNCHANGED <<syncVars, handlerState, socketVars, extVars>>

NextRouter ==
  \/ connect
  \/ transportConnect
  \/ transportClose
  \/ checkConnection
  \/ \E pattern \in RouterPatterns, callback \in CustomCallbacks :
       subscribeToTopic(pattern, callback)
  \/ \E topic \in RouterTopics, payload \in PayloadKinds : handleMessage(topic, payload)
  \/ \E topic \in PublishTopics, outcome \in ClientOutcomes : publish(topic, outcome)
  \/ \E deviceId \in DeviceIds, outcome \in ClientOutcomes :
       publishCommand(deviceId, "toggle", outcome)

SpecRouter == Init /\ [][NextRouter]_vars

\* regex.test(topic) of handleMessage for one pattern and one topic
testPattern(pattern, topic) ==
  /\ lastMessage' = [NoMessage("regex.test") EXCEPT
                       !.pattern = pattern, !.topic = topic,
                       !.result = IF RegexTest(pattern, topic) THEN "true" ELSE "false"]
  /\ UNCHANGED <<client, topicCallbacks, deviceStore>>
  /\ lastCall' = NoCall("MQTTManager")
  /\ UNCHANGED <<syncVars, handlerState, socketVars, extVars>>

\* every text of at most MaxTextLen single characters
Texts ==
  UNION {[1..n -> SingleChars] : n \in 0..MaxTextLen}

\* the patterns and topics the specification names, over words
WordPatterns == {Join(<<"breeze", "devices", "+", "streams", "video">>)}

WordTopics ==
  {Join(<<"breeze", "devices", "cam1", "streams", "video">>),
   Join(<<"breeze", "devices", "cam1", "substream", "video">>),
   Join(<<"breeze", "devices", "cam1", "streams", "video", "extra">>),
   Join(<<"breeze", "devices", "cam1", "streams">>),
   <<"breeze", Slash, "devices", Slash, Slash, "streams", Slash, "video">>}

\* one test per behaviour
NextMatch ==
  /\ lastMessage.op = "constructor"
  /\ \/ \E pattern \in Texts, topic \in Texts : testPattern(pattern, topic)
     \/ \E pattern \in WordPatterns, topic \in WordTopics : testPattern(pattern, topic)

SpecMatch == Init /\ [][NextMatch]_vars

(***************************************************************************)
(* Vocabulary of the properties                                            *)
(***************************************************************************)
AddOps == {"addAudioPacket", "addVideoPacket"}

\* the positions of the frames handed to the listener that hold packet k
FramesHolding(k) ==
  {i \in 1..Len(emitted) :
     \/ emitted[i].audio # NULL /\ emitted[i].audio.sequence_num = k
     \/ emitted[i].video # NULL /\ emitted[i].video.sequence_num = k}

\* two timestamps in microseconds differ by at most max_jitter_ms milliseconds
Close(ta, tv) ==
  (IF ta >= tv THEN ta - tv ELSE tv - ta) <= max_jitter_ms * 1000

\* a buffered entry is older than buffer_timeout_ms at the current time
Expired(item) == now - item.received_at > buffer_timeout_ms

Buffered(k) == k \in Seqs(audioBuffer) \cup Seqs(videoBuffer)

(***************************************************************************)
(* C1.  A packet that is not matched while its age is at most              *)
(* buffer_timeout_ms is emitted exactly once as an incomplete frame and    *)
(* removed, and is never part of a complete frame afterwards: every packet *)
(* that has left its buffer (other than by reset()) is held by exactly one *)
(* emitted frame, and no AddPacket call pairs an entry whose age already   *)
(* exceeds buffer_timeout_ms.                                              *)
(***************************************************************************)
C1_OrphanEmittedOnceNeverPaired ==
  /\ \A k \in 1..sent :
        history[k].left \notin {"buffered", "reset"} =>
          Cardinality(FramesHolding(k)) = 1
  /\ last.op \in AddOps =>
        \A i \in 1..Len(last.frames) :
          last.frames[i].complete =>
            \A item \in Range(last.audioIn) \cup Range(last.videoIn) :
              item.packet \in {last.frames[i].audio, last.frames[i].video}
                => ~Expired(item)

(***************************************************************************)
(* C2.  Orphan eviction is done by the periodic sweep alone: when one      *)
(* video packet is the only packet ever added, a sweep that runs once the  *)
(* packet's age exceeds buffer_timeout_ms leaves the video buffer empty    *)
(* and the listener with exactly one frame, {audio: null, video: that      *)
(* packet, complete: false}.                                               *)
(***************************************************************************)
C2_SweepEmitsLoneVideo ==
  ( /\ sent = 1
    /\ resets = 0
    /\ history[1].stream_type = "VIDEO"
    /\ last.op = "sweep"
    /\ \/ history[1].left = "cleanup"
       \/ videoBuffer # <<>> /\ Expired(videoBuffer[1]) )
  => /\ videoBuffer = <<>>
     /\ Len(emitted) = 1
     /\ emitted[1].audio = NULL
     /\ emitted[1].video # NULL
     /\ emitted[1].video.sequence_num = 1
     /\ emitted[1].complete = FALSE

C4_AtMostOneFramePerAddPacket ==
  last.op \in AddOps => Len(last.frames) <= 1

(***************************************************************************)
(* C5.  First match, not closest match: the pair an AddPacket call emits   *)
(* is (a, v) with a the lowest-timestamp audio entry that has some video   *)
(* entry within max_jitter_ms, and v the lowest-timestamp video entry      *)
(* within max_jitter_ms of a.                                              *)
(***************************************************************************)
MinOf(S) == CHOOSE x \in S : \A y \in S : x <= y

Dist(ta, tv) == IF ta >= tv THEN ta - tv ELSE tv - ta

C5_FirstMatchNotClosest ==
  ( /\ last.op \in AddOps
    /\ Len(last.frames) >= 1
    /\ last.frames[1].complete )
  => LET f == last.frames[1]
         videoTs == {v.packet.timestamp_us : v \in Range(last.videoIn)}
         audioTs == {a.packet.timestamp_us : a \in Range(last.audioIn)}
     IN  /\ f.audio.timestamp_us =
              MinOf({ta \in audioTs : \E tv \in videoTs : Close(ta, tv)})
         /\ f.video.timestamp_us =
              MinOf({tv \in videoTs : Close(f.audio.timestamp_us, tv)})

\* a pair has just been emitted although another video entry was nearer in
\* time to the audio entry than the one chosen
C5_Witness ==
  /\ last.op \in AddOps
  /\ Len(last.frames) = 1
  /\ last.frames[1].complete
  /\ \E v \in Range(last.videoIn) :
       Dist(last.frames[1].audio.timestamp_us, v.packet.timestamp_us)
         < Dist(last.frames[1].audio.timestamp_us, last.frames[1].video.timestamp_us)

(***************************************************************************)
(* C6.  Every emitted frame that holds both an audio and a video packet    *)
(* has complete = true and timestamp = min(ts_us(a), ts_us(v)) / 1000; and *)
(* adding audio ts_us = 500000 and then video ts_us = 530000 emits exactly *)
(* one frame, complete, with timestamp 500.                                *)
(***************************************************************************)
C6_CompleteFrameTimestamp ==
  /\ \A i \in 1..Len(emitted) :
        (emitted[i].audio # NULL /\ emitted[i].video # NULL) =>
          LET ta == emitted[i].audio.timestamp_us
              tv == emitted[i].video.timestamp_us
              m == IF ta <= tv THEN ta ELSE tv
          IN  /\ emitted[i].complete
              /\ emitted[i].timestamp = [whole |-> m \div 1000, frac |-> m % 1000]
  /\ ( /\ last.op = "addVideoPacket"
       /\ last.packet.timestamp_us = 530000
       /\ Len(last.videoIn) = 1
       /\ Len(last.audioIn) = 1
       /\ last.audioIn[1].packet.timestamp_us = 500000 )
     => /\ Len(last.frames) = 1
        /\ last.frames[1].complete
        /\ last.frames[1].audio = last.audioIn[1].packet
        /\ last.frames[1].video = last.packet
        /\ last.frames[1].timestamp = [whole |-> 500, frac |-> 0]

\* Scenario A has just run: audio 500000 was buffered alone, video 530000 was
\* added and a frame came out
C6_Witness ==
  /\ last.op = "addVideoPacket"
  /\ last.packet.timestamp_us = 530000
  /\ Len(last.videoIn) = 1
  /\ Len(last.audioIn) = 1
  /\ last.audioIn[1].packet.timestamp_us = 500000
  /\ Len(emitted) = 1
  /\ audioBuffer = <<>> /\ videoBuffer = <<>>

(***************************************************************************)
(* C7.  Every complete frame pairs packets whose timestamps differ by at   *)
(* most max_jitter_ms, a pair exactly max_jitter_ms apart is matched, and  *)
(* an audio and a video entry further apart are never emitted together:    *)
(* when one of them leaves its buffer (other than by reset()) without      *)
(* being paired, the same step emits it as an incomplete frame of its own. *)
(***************************************************************************)
C7_Pairs ==
  /\ \A i \in 1..Len(emitted) :
        (emitted[i].audio # NULL /\ emitted[i].video # NULL) =>
          Close(emitted[i].audio.timestamp_us, emitted[i].video.timestamp_us)
  /\ ( /\ last.op \in AddOps
       /\ \E a \in Range(last.audioIn), v \in Range(last.videoIn) :
            Dist(a.packet.timestamp_us, v.packet.timestamp_us) = max_jitter_ms * 1000 )
     => (Len(last.frames) = 1 /\ last.frames[1].complete)

\* item, buffered before the step, is in no buffer after it and was not
\* paired by it
LeavesUnpaired(item) ==
  /\ item.packet.sequence_num \notin Seqs(audioBuffer') \cup Seqs(videoBuffer')
  /\ \A i \in (Len(emitted) + 1)..Len(emitted') :
       emitted'[i].complete => item.packet \notin {emitted'[i].audio, emitted'[i].video}

OwnFrame(item) ==
  \E i \in (Len(emitted) + 1)..Len(emitted') :
    /\ ~emitted'[i].complete
    /\ item.packet \in {emitted'[i].audio, emitted'[i].video}

C7_Step ==
  /\ C7_Pairs'
  /\ resets' = resets =>
       \A a \in Range(audioBuffer), v \in Range(videoBuffer) :
         ~Close(a.packet.timestamp_us, v.packet.timestamp_us) =>
           /\ \A i \in 1..Len(emitted') :
                ~(emitted'[i].audio = a.packet /\ emitted'[i].video = v.packet)
           /\ LeavesUnpaired(a) => OwnFrame(a)
           /\ LeavesUnpaired(v) => OwnFrame(v)

C7_FarApartNeverPairedOwnFrame == [][C7_Step]_vars

(***************************************************************************)
(* C8.  Both buffers are sorted in ascending order of timestamp_us in      *)
(* every state, whatever the arrival order of the packets.                 *)
(***************************************************************************)
Sorted(buf) ==
  \A i, j \in 1..Len(buf) :
    i < j => buf[i].packet.timestamp_us <= buf[j].packet.timestamp_us

C8_BuffersSorted == Sorted(audioBuffer) /\ Sorted(videoBuffer)

\* a buffer holds a packet that arrived later in front of one that arrived
\* earlier
C8_Witness ==
  \E buf \in {audioBuffer, videoBuffer} :
    \E i, j \in 1..Len(buf) :
      /\ i < j
      /\ buf[i].packet.sequence_num > buf[j].packet.sequence_num
      /\ buf[i].packet.timestamp_us < buf[j].packet.timestamp_us

(***************************************************************************)
(* C9.  No packet is emitted twice: each packet is held by at most one     *)
(* emitted frame, sits in at most one buffer entry at a time, and is in no *)
(* buffer once a frame holding it has been emitted.                        *)
(***************************************************************************)
Entries(buf, k) == {i \in 1..Len(buf) : buf[i].packet.sequence_num = k}

C10_CompleteIffBoth ==
  \A i \in 1..Len(emitted) :
    /\ emitted[i].complete <=> (emitted[i].audio # NULL /\ emitted[i].video # NULL)
    /\ emitted[i].audio # NULL \/ emitted[i].video # NULL

\* the listener has seen a complete frame and an audio-only frame
C10_Witness ==
  /\ \E i \in 1..Len(emitted) : emitted[i].complete
  /\ \E i \in 1..Len(emitted) : emitted[i].video = NULL

\* the complete frames among the frames of a sequence
CompleteFrames(frames) == SelectSeq(frames, LAMBDA f : f.complete)

\* the frames a step has handed to the listener
NewFrames == SubSeq(emitted', Len(emitted) + 1, Len(emitted'))

(***************************************************************************)
(* C11.  Each AddPacket call resolves at most one audio/video pair, and    *)
(* packets_synced is twice the number of complete frames emitted since     *)
(* construction or the last reset(): it is 0 with nothing emitted after    *)
(* the constructor, reset() sets it to 0, and every other step hands the   *)
(* listener at most one complete frame and adds 2 to packets_synced for    *)
(* it, removing exactly that one audio and that one video entry.           *)
(***************************************************************************)
C11_Step ==
  IF last'.op = "reset"
  THEN stats'.packets_synced = 0 /\ NewFrames = <<>>
  ELSE /\ Len(CompleteFrames(NewFrames)) <= 1
       /\ stats'.packets_synced = stats.packets_synced + 2 * Len(CompleteFrames(NewFrames))
       /\ \A i \in 1..Len(CompleteFrames(NewFrames)) :
            LET f == CompleteFrames(NewFrames)[i]
            IN  /\ last'.op \in AddOps
                /\ Len(last'.audioIn) = Len(audioBuffer') + 1
                /\ Len(last'.videoIn) = Len(videoBuffer') + 1
                /\ history'[f.audio.sequence_num].left = "sync"
                /\ history'[f.video.sequence_num].left = "sync"

C12_Step ==
  last'.op # "reset" =>
    stats'.packets_dropped = stats.packets_dropped +
      Cardinality({k \in DOMAIN history :
                     /\ history[k].left = "buffered"
                     /\ history'[k].left \in {"orphan", "cleanup"}})

C12_DroppedCountsEveryOrphan == [][C12_Step]_vars

(***************************************************************************)
(* C13.  After reset(), reached from any state, both buffers are empty and *)
(* packets_received, packets_synced, packets_dropped, avg_jitter and       *)
(* current_latency are all 0.                                              *)
(***************************************************************************)
C13_ResetClearsAll ==
  last.op = "reset" =>
    /\ audioBuffer = <<>>
    /\ videoBuffer = <<>>
    /\ stats.packets_received = 0
    /\ stats.packets_synced = 0
    /\ stats.packets_dropped = 0
    /\ stats.avg_jitter.n = 0
    /\ stats.current_latency.num = 0

\* reset() has just run on a synchronizer that had emitted a complete
\* frame, had published statistics, and still held an entry in a buffer
C13_Witness ==
  /\ last.op = "reset"
  /\ statsSeen >= 1
  /\ \E i \in 1..Len(emitted) : emitted[i].complete
  /\ \E k \in DOMAIN history : history[k].left = "reset"

(***************************************************************************)
(* C14.  avg_jitter starts at 0, becomes 0.9 * avg_jitter + 0.1 * d on     *)
(* each successful match of difference d ms, is set to 0 by reset(), and   *)
(* is left unchanged by every other step: orphan emission, sweeps and      *)
(* statistics ticks.  Both sides are compared as exact decimals brought to *)
(* a common power of ten.                                                  *)
(***************************************************************************)
C14_Step ==
  IF last'.op = "reset"
  THEN stats'.avg_jitter.n = 0
  ELSE IF CompleteFrames(NewFrames) # <<>>
  THEN LET f == CompleteFrames(NewFrames)[1]
           dUs == Dist(f.audio.timestamp_us, f.video.timestamp_us)
           old == stats.avg_jitter
           new == stats'.avg_jitter
           m == IF old.e + 1 > 4 THEN old.e + 1 ELSE 4
           E == IF new.e > m THEN new.e ELSE m
       IN  new.n * Pow10(E - new.e)
             = 9 * old.n * Pow10(E - (old.e + 1)) + dUs * Pow10(E - 4)
  ELSE stats'.avg_jitter = stats.avg_jitter

C14_JitterMovingAverage ==
  /\ stats.avg_jitter.n = 0
  /\ [][C14_Step]_vars

\* a second match of 30.5 ms has just been averaged into the 3.05 left by
\* the first: 0.9 * 3.05 + 0.1 * 30.5 = 5.795
C14_Witness ==
  /\ stats.packets_synced = 4
  /\ stats.avg_jitter.n = 5795 /\ stats.avg_jitter.e = 3
  /\ last.op \in AddOps
  /\ Len(last.frames) = 1
  /\ last.frames[1].complete

(***************************************************************************)
(* Vocabulary of the handler properties                                    *)
(***************************************************************************)
\* the effects of the last handler operation that are of one kind
EffectsOfKind(call, kind) == SelectSeq(call.effects, LAMBDA e : e.kind = kind)

\* the operation notified every registered listener exactly once, in
\* registration order, with its event
NotifiedEachOnce(call, listeners) ==
  LET n == EffectsOfKind(call, "notify")
  IN  /\ Len(n) = Len(listeners)
      /\ \A i \in 1..Len(n) :
           n[i].listener = listeners[i] /\ n[i].event_type = call.event_type

\* a synchronizer whose timers are cancelled and whose buffers are released
Disposed(s) ==
  /\ ~s.sweepTimer
  /\ ~s.statsTimer
  /\ s.audioBuffer = <<>>
  /\ s.videoBuffer = <<>>

HoldsPackets(s) ==
  s # NoSynchronizer /\ (s.audioBuffer # <<>> \/ s.videoBuffer # <<>>)

(***************************************************************************)
(* C15.  After endCall(deviceId) or unregisterDevice(deviceId) returns,    *)
(* deviceId is not in the active set and the device-id to synchronizer map *)
(* has no entry for deviceId.                                              *)
(***************************************************************************)
C15_EndCallRemovesSynchronizer ==
  lastCall.op \in {"endCall", "unregisterDevice"} =>
    /\ lastCall.device \notin activeDevices
    /\ synchronizers[lastCall.device] = NoSynchronizer

(***************************************************************************)
(* C16.  When endCall disposes a device session, the synchronizer's sweep  *)
(* timer and statistics timer are cancelled and its buffers are released   *)
(* in the same step: in the state endCall leaves, the device has no        *)
(* synchronizer or one with both timers cancelled and both buffers empty,  *)
(* and the step after endCall is never a sweep tick or a statistics tick   *)
(* of that device's synchronizer.                                          *)
(***************************************************************************)
C16_Step ==
  /\ lastCall'.op = "endCall" =>
       \/ synchronizers'[lastCall'.device] = NoSynchronizer
       \/ Disposed(synchronizers'[lastCall'.device])
  /\ ~ ( /\ lastCall.op = "endCall"
         /\ lastCall'.op \in {"sweepTick", "statsTick"}
         /\ lastCall'.device = lastCall.device )

C16_EndCallCancelsTimers == [][C16_Step]_vars

(***************************************************************************)
(* C17.  After an incoming-call message with a decodable payload is        *)
(* handled for device d, d is in the active set, a synchronizer exists for *)
(* d (the one the map already held, unchanged, or else a newly constructed *)
(* one), no other device's synchronizer is touched, and every registered   *)
(* call-event listener has been invoked exactly once with that event.      *)
(***************************************************************************)
C17_Step ==
  (lastCall'.op = "handleIncomingCall" /\ lastCall'.decoded) =>
    LET d == lastCall'.device
    IN  /\ d \in activeDevices'
        /\ activeDevices' = activeDevices \cup {d}
        /\ synchronizers'[d] # NoSynchronizer
        /\ IF synchronizers[d] # NoSynchronizer
           THEN synchronizers'[d] = synchronizers[d] /\ created' = created
           ELSE /\ created' = created + 1
                /\ synchronizers'[d].id = created + 1
                /\ synchronizers'[d].audioBuffer = <<>>
                /\ synchronizers'[d].videoBuffer = <<>>
                /\ synchronizers'[d].stats.packets_received = 0
        /\ \A e \in DeviceIds \ {d} : synchronizers'[e] = synchronizers[e]
        /\ NotifiedEachOnce(lastCall', callEventListeners)

C17_IncomingCallActivatesAndNotifies == [][C17_Step]_vars

\* an incoming call has just been handled, with two listeners registered,
\* for a device whose synchronizer already held a packet
C17_Witness ==
  /\ lastCall.op = "handleIncomingCall"
  /\ lastCall.decoded
  /\ Len(callEventListeners) = 2
  /\ Len(EffectsOfKind(lastCall, "notify")) = 2
  /\ HoldsPackets(synchronizers[lastCall.device])
  /\ lastCall.device \in activeDevices

(***************************************************************************)
(* C18.  rejectCall(deviceId) issues the publish of a CALL_ENDED event on  *)
(* the device's control topic before it runs endCall, and after rejectCall *)
(* returns the device is not in the active set whether or not the publish  *)
(* succeeded, including when the transport is disconnected.                *)
(***************************************************************************)
C18_RejectPublishesThenEnds ==
  lastCall.op = "rejectCall" =>
    /\ Len(lastCall.effects) = 2
    /\ lastCall.effects[1].kind = "publish"
    /\ lastCall.effects[1].topic = "interphone/control"
    /\ lastCall.effects[1].device = lastCall.device
    /\ lastCall.effects[1].event_type = "CALL_ENDED"
    /\ lastCall.effects[1].outcome \in {"sent", "error", "notConnected"}
    /\ lastCall.effects[2].kind = "endCall"
    /\ lastCall.effects[2].device = lastCall.device
    /\ lastCall.device \notin activeDevices

\* rejectCall has just run for an active device while the transport was
\* disconnected
C18_Witness ==
  /\ lastCall.op = "rejectCall"
  /\ ~isConnected
  /\ lastCall.effects[1].outcome = "notConnected"
  /\ lastCall.effects[2].outcome = "deleted"
  /\ lastCall.device \notin activeDevices

(***************************************************************************)
(* C19.  A control-topic message for device d whose event_type is          *)
(* CALL_ENDED leaves the state endCall(d) leaves (d removed from the       *)
(* active set, all else as before); a control message with any other       *)
(* event_type leaves the active set and the synchronizer map unchanged; in *)
(* both cases every listener is notified, after the state change.          *)
(***************************************************************************)
C19_Step ==
  (lastCall'.op = "handleCallControl" /\ lastCall'.decoded) =>
    LET d == lastCall'.device
        ends == EffectsOfKind(lastCall', "endCall")
    IN  /\ synchronizers' = synchronizers
        /\ devices' = devices
        /\ created' = created
        /\ IF lastCall'.event_type = "CALL_ENDED"
           THEN /\ activeDevices' = activeDevices \ {d}
                /\ Len(ends) = 1
                /\ ends[1].device = d
           ELSE /\ activeDevices' = activeDevices
                /\ ends = <<>>
        /\ NotifiedEachOnce(lastCall', callEventListeners)
        /\ \A i, j \in 1..Len(lastCall'.effects) :
             (lastCall'.effects[i].kind = "endCall" /\ lastCall'.effects[j].kind = "notify")
               => i < j

C19_ControlEndedIsEndCall == [][C19_Step]_vars

\* a CALL_ENDED control message has just ended the call of an active device
\* and two listeners were notified after that
C19_Witness ==
  /\ lastCall.op = "handleCallControl"
  /\ lastCall.decoded
  /\ lastCall.event_type = "CALL_ENDED"
  /\ Len(lastCall.effects) = 3
  /\ lastCall.effects[1].kind = "endCall"
  /\ lastCall.effects[1].outcome = "deleted"
  /\ lastCall.effects[3].kind = "notify"
  /\ lastCall.device \notin activeDevices

(***************************************************************************)
(* C20.  answerCall(deviceId) issues one publish of a CALL_ANSWERED event  *)
(* on the device's control topic and changes nothing else: the active set, *)
(* the synchronizer map, the device metadata, the listeners and every      *)
(* synchronizer's buffers and counters are the same before and after the   *)
(* call, for any deviceId including one with no incoming call.             *)
(***************************************************************************)
C20_Step ==
  lastCall'.op = "answerCall" =>
    /\ Len(lastCall'.effects) = 1
    /\ lastCall'.effects[1].kind = "publish"
    /\ lastCall'.effects[1].topic = "interphone/control"
    /\ lastCall'.effects[1].device = lastCall'.device
    /\ lastCall'.effects[1].event_type = "CALL_ANSWERED"
    /\ activeDevices' = activeDevices
    /\ synchronizers' = synchronizers
    /\ devices' = devices
    /\ callEventListeners' = callEventListeners
    /\ created' = created
    /\ streamed' = streamed
    /\ isConnected' = isConnected
    /\ subscribed' = subscribed

C20_AnswerCallOnlyPublishes == [][C20_Step]_vars

\* answerCall has just run for a device that never had an incoming call,
\* while another device is in a call with a packet buffered and a device is
\* registered
C20_Witness ==
  /\ lastCall.op = "answerCall"
  /\ lastCall.effects[1].outcome = "sent"
  /\ lastCall.device \notin activeDevices
  /\ synchronizers[lastCall.device] = NoSynchronizer
  /\ devices # {}
  /\ \E e \in activeDevices : HoldsPackets(synchronizers[e])

(***************************************************************************)
(* Vocabulary of the router properties                                     *)
(***************************************************************************)
\* how often handleMessage called callback under pattern
TimesInvoked(message, pattern, callback) ==
  Len(SelectSeq(message.invoked,
                LAMBDA e : e.pattern = pattern /\ e.callback = callback))

\* how often callback is registered under the i-th pattern
TimesRegistered(map, i, callback) ==
  Len(SelectSeq(map[i].callbacks, LAMBDA c : c = callback))

DefaultRoutes ==
  {"noDeviceId", "interphoneStream", "interphoneEvent", "addOrUpdateDevice",
   "updateDeviceStatus", "updateDeviceState"}

\* the topic matches the pattern segment by segment: same number of
\* segments, each pattern segment "+" against a non-empty segment or equal
SegmentMatch(pattern, topic) ==
  LET ps == Split(pattern)
      ts == Split(topic)
  IN  /\ Len(ps) = Len(ts)
      /\ \A i \in 1..Len(ps) :
           \/ ps[i] = <<"+">> /\ ts[i] # <<>>
           \/ ps[i] = ts[i]

\* breeze/devices/{id}/streams/audio or .../video
IsStreamTopic(topic) ==
  LET ts == Split(topic)
  IN  /\ Len(ts) = 5
      /\ ts[1] = <<"breeze">> /\ ts[2] = <<"devices">> /\ ts[3] # <<>>
      /\ ts[4] = <<"streams">> /\ ts[5] \in {<<"audio">>, <<"video">>}

(***************************************************************************)
(* C21.  For every inbound message: if at least one registered pattern     *)
(* matches the topic, every callback of every matching pattern is invoked  *)
(* exactly once per registration, no callback of another pattern is        *)
(* invoked, and default routing is not performed (the device store is not  *)
(* touched); if none matches, no callback is invoked and default routing   *)
(* runs.                                                                   *)
(***************************************************************************)
C21_Step ==
  (lastCall'.op = "MQTTManager" /\ lastMessage'.op = "handleMessage") =>
    \E m \in {lastMessage'} :
      \E matching \in {{i \in 1..Len(topicCallbacks) :
                          RegexTest(topicCallbacks[i].pattern, m.topic)}} :
        /\ topicCallbacks' = topicCallbacks
        /\ \A i \in 1..Len(topicCallbacks) :
             \A c \in CustomCallbacks \cup HandlerCallbacks :
               TimesInvoked(m, topicCallbacks[i].pattern, c) =
                 IF i \in matching THEN TimesRegistered(topicCallbacks, i, c) ELSE 0
        /\ IF matching # {}
           THEN m.invoked # <<>> /\ m.route = "custom" /\ deviceStore' = deviceStore
           ELSE m.invoked = <<>> /\ m.route \in DefaultRoutes

C21_CustomHandlersTakePrecedence == [][C21_Step]_vars

\* a message has just been handled whose topic two registered patterns
\* match, after default routing had stored a device for an earlier message
C21_Witness ==
  /\ lastCall.op = "MQTTManager"
  /\ lastMessage.op = "handleMessage"
  /\ Len(lastMessage.invoked) = 2
  /\ lastMessage.invoked[1].pattern # lastMessage.invoked[2].pattern
  /\ lastMessage.route = "custom"
  /\ deviceStore # {}

(***************************************************************************)
(* C22.  A topic matches a pattern exactly when both have the same number  *)
(* of '/'-separated segments and every pattern segment is either '+' with  *)
(* the corresponding topic segment non-empty, or equal to the              *)
(* corresponding topic segment.                                            *)
(***************************************************************************)
C22_MatchIsSegmentwise ==
  (lastCall.op = "MQTTManager" /\ lastMessage.op = "regex.test") =>
    ((lastMessage.result = "true") <=> SegmentMatch(lastMessage.pattern, lastMessage.topic))

(***************************************************************************)
(* C23.  Every message received on breeze/devices/{id}/streams/audio or    *)
(* .../video with a decodable packet is forwarded to the synchronizer of   *)
(* device {id} as an AddPacket, at any time the transport delivers it: a   *)
(* delivery of such a message is never left to default routing, and every  *)
(* delivery to the stream handlers adds one packet to the device's         *)
(* synchronizer.                                                           *)
(***************************************************************************)
C23_Step ==
  /\ ~ ( /\ lastCall'.op = "MQTTManager"
         /\ lastMessage'.op = "handleMessage"
         /\ IsStreamTopic(lastMessage'.topic)
         /\ lastMessage'.payload \in {"json", "jsonWithId"} )
  /\ ( /\ lastCall'.op \in {"handleAudioStream", "handleVideoStream"}
       /\ lastCall'.decoded )
     => /\ synchronizers'[lastCall'.device] # NoSynchronizer
        /\ synchronizers'[lastCall'.device].stats.packets_received =
             (IF synchronizers[lastCall'.device] = NoSynchronizer THEN 0
              ELSE synchronizers[lastCall'.device].stats.packets_received) + 1

C23_StreamAlwaysForwarded == [][C23_Step]_vars

(***************************************************************************)
(* C27.  publish and publishCommand never throw: when the transport is     *)
(* disconnected or there is no client they resolve to false without        *)
(* calling the client, when the client reports an error they resolve to    *)
(* false, and they resolve to true only when the client reports success.   *)
(***************************************************************************)
C27_PublishResolves ==
  (lastCall.op = "MQTTManager" /\ lastMessage.op \in {"publish", "publishCommand"}) =>
    /\ lastMessage.result \in {"true", "false"}
    /\ (~isConnected \/ ~client) =>
          (lastMessage.result = "false" /\ lastMessage.route = "")
    /\ (isConnected /\ client) => lastMessage.route = "client.publish"
    /\ (lastMessage.result = "true") <=>
          (lastMessage.route = "client.publish" /\ lastMessage.payload = "success")

\* publish has just resolved to false because the client reported an error
\* while connected
C27_Witness ==
  /\ lastCall.op = "MQTTManager"
  /\ lastMessage.op = "publish"
  /\ isConnected
  /\ lastMessage.route = "client.publish"
  /\ lastMessage.payload = "error"
  /\ lastMessage.result = "false"

(***************************************************************************)
(* C24.  A message with an undecodable payload on a stream, incoming-call  *)
(* or control topic is dropped without any state change: the step that     *)
(* handles it creates no synchronizer, changes no buffer and no counter,    *)
(* leaves the active set, the device metadata and the listeners as they     *)
(* were, notifies no listener, has no other effect, and leaves the          *)
(* transport and the router as they were.                                   *)
(***************************************************************************)
MessageHandlers ==
  {"handleAudioStream", "handleVideoStream", "handleIncomingCall", "handleCallControl"}

C24_Step ==
  (lastCall'.op \in MessageHandlers /\ ~lastCall'.decoded) =>
    /\ lastCall'.effects = <<>>
    /\ activeDevices' = activeDevices
    /\ synchronizers' = synchronizers
    /\ created' = created
    /\ streamed' = streamed
    /\ devices' = devices
    /\ callEventListeners' = callEventListeners
    /\ isConnected' = isConnected
    /\ subscribed' = subscribed
    /\ routerVars' = routerVars
    /\ socketVars' = socketVars

C24_UndecodableDropped == [][C24_Step]_vars

\* an undecodable incoming-call message has just been dropped for a device
\* that has no call and no synchronizer, with two listeners registered and
\* another device in a call with a packet buffered
C24_Witness ==
  /\ lastCall.op = "handleIncomingCall"
  /\ ~lastCall.decoded
  /\ lastCall.device \notin activeDevices
  /\ synchronizers[lastCall.device] = NoSynchronizer
  /\ Len(callEventListeners) = 2
  /\ \E e \in activeDevices : HoldsPackets(synchronizers[e])

(***************************************************************************)
(* C28.  When a call session restarts for a device (the step after one     *)
(* that ended the device's call handles a decodable incoming call for the  *)
(* same device), the device's synchronizer starts the new session with     *)
(* empty buffers and all counters zero.                                    *)
(***************************************************************************)
\* the operation ended the call of the device it names
EndedCall(call) ==
  \E i \in 1..Len(call.effects) :
    /\ call.effects[i].kind = "endCall"
    /\ call.effects[i].device = call.device
    /\ call.effects[i].outcome = "deleted"

C28_Step ==
  ( /\ EndedCall(lastCall)
    /\ lastCall'.op = "handleIncomingCall"
    /\ lastCall'.decoded
    /\ lastCall'.device = lastCall.device )
  => LET s == synchronizers'[lastCall'.device]
     IN  /\ s # NoSynchronizer
         /\ s.audioBuffer = <<>>
         /\ s.videoBuffer = <<>>
         /\ s.stats.packets_received = 0
         /\ s.stats.packets_synced = 0
         /\ s.stats.packets_dropped = 0
         /\ s.stats.avg_jitter.n = 0
         /\ s.stats.current_latency.num = 0

C28_RestartStartsEmpty == [][C28_Step]_vars

(***************************************************************************)
(* Vocabulary of the socket properties                                     *)
(***************************************************************************)
\* what a step appended to a log
Appended(before, after) == SubSeq(after, Len(before) + 1, Len(after))

\* the connections subscribed to deviceId
Subscribers(room, deviceId) == {c \in Connections : deviceId \in room[c]}

\* the payloads a frame carries, which identify it
PayloadsOf(frame) ==
  [audio |-> IF frame.audio # NULL THEN frame.audio.data ELSE 0,
   video |-> IF frame.video # NULL THEN frame.video.data ELSE 0]

PayloadsOnWire(ev) ==
  [audio |-> IF ev.data.audio # NULL THEN ev.data.audio.data ELSE 0,
   video |-> IF ev.data.video # NULL THEN ev.data.video.data ELSE 0]

(***************************************************************************)
(* C25.  Every frame emitted by device d's synchronizer while a socket     *)
(* server is configured produces exactly one syncedFrame event addressed   *)
(* to d's room, carrying that frame, and received by exactly the           *)
(* connections subscribed to d at that moment; subscribing puts a          *)
(* connection among them, unsubscribing takes it out, and nothing else     *)
(* changes who is subscribed.  Without a socket server no event is sent.   *)
(***************************************************************************)
C25_Step ==
  /\ Len(wire') >= Len(wire) /\ SubSeq(wire', 1, Len(wire)) = wire
  /\ Len(frameLog') >= Len(frameLog)
  /\ IF socketIOServer
     THEN /\ Len(Appended(wire, wire')) = Len(Appended(frameLog, frameLog'))
          /\ \A i \in 1..Len(Appended(wire, wire')) :
               LET ev == Appended(wire, wire')[i]
                   fr == Appended(frameLog, frameLog')[i]
               IN  /\ ev.event = "syncedFrame"
                   /\ ev.room = fr.deviceId
                   /\ ev.data.deviceId = fr.deviceId
                   /\ PayloadsOnWire(ev) = PayloadsOf(fr.frame)
                   /\ ev.to = Subscribers(rooms, fr.deviceId)
     ELSE Appended(wire, wire') = <<>>
  /\ \A c \in Connections, d \in DeviceIds :
       (d \in rooms'[c]) <=>
         IF lastCall'.op = "subscribeToDevice" /\ lastCall' # lastCall
              /\ lastCall'.device = d /\ lastCall'.effects[1].listener = c
         THEN TRUE
         ELSE IF lastCall'.op = "unsubscribeFromDevice" /\ lastCall' # lastCall
                   /\ lastCall'.device = d /\ lastCall'.effects[1].listener = c
         THEN FALSE
         ELSE d \in rooms[c]

C25_FrameReachesSubscribers == [][C25_Step]_vars

\* a frame of a device has just been sent to one connection only, after an
\* earlier frame of the same device had been sent to both connections
C25_Witness ==
  /\ lastCall.op \in {"handleAudioStream", "handleVideoStream"}
  /\ Len(wire) = 2
  /\ wire[1].room = wire[2].room
  /\ wire[1].to = Connections
  /\ Cardinality(wire[2].to) = 1
  /\ \E c \in Connections : wire[1].room \notin rooms[c]

(***************************************************************************)
(* C26.  When a connection subscribes to device d and d's activity status  *)
(* is known (d is registered or d is in the active set), exactly one       *)
(* deviceStatus event is sent to that connection, with active equal to     *)
(* whether d is in the active set at that moment; when nothing is known    *)
(* about d, no deviceStatus is sent.                                       *)
(***************************************************************************)
C26_Step ==
  lastCall'.op = "subscribeToDevice" =>
    LET d == lastCall'.device
        joins == EffectsOfKind(lastCall', "join")
        statuses == EffectsOfKind(lastCall', "deviceStatus")
    IN  /\ Len(joins) = 1
        /\ IF d \in devices' \cup activeDevices'
           THEN /\ Len(statuses) = 1
                /\ statuses[1].device = d
                /\ statuses[1].listener = joins[1].listener
                /\ statuses[1].outcome =
                     (IF d \in activeDevices' THEN "active" ELSE "inactive")
           ELSE statuses = <<>>

C26_StatusOnSubscribeWhenKnown == [][C26_Step]_vars

(***************************************************************************)
(* C29.  At any time there is at most one synchronizer per device id: the  *)
(* instances held for different devices are different, and none is ever    *)
(* replaced.  Every packet buffered in a device's synchronizer arrived on  *)
(* that device's topic, and every emitted frame holds only packets that    *)
(* arrived on the topic of the device whose synchronizer emitted it.       *)
(***************************************************************************)
WithSynchronizer == {d \in DeviceIds : synchronizers[d] # NoSynchronizer}

C29_OneSynchronizerPerDevice ==
  /\ created = Cardinality(WithSynchronizer)
  /\ \A d, e \in WithSynchronizer :
       d # e => synchronizers[d].id # synchronizers[e].id
  /\ \A d \in WithSynchronizer :
       /\ \A i \in 1..Len(synchronizers[d].audioBuffer) :
            synchronizers[d].audioBuffer[i].packet.device_id = d
       /\ \A i \in 1..Len(synchronizers[d].videoBuffer) :
            synchronizers[d].videoBuffer[i].packet.device_id = d
  /\ \A i \in 1..Len(frameLog) :
       /\ frameLog[i].frame.audio # NULL =>
            frameLog[i].frame.audio.device_id = frameLog[i].deviceId
       /\ frameLog[i].frame.video # NULL =>
            frameLog[i].frame.video.device_id = frameLog[i].deviceId

\* a device's synchronizer has paired an audio and a video packet while the
\* synchronizer of another device held an audio packet that arrived before
\* that video packet and carries the same timestamp
C29_Witness ==
  \E i \in 1..Len(frameLog) :
    /\ frameLog[i].frame.complete
    /\ \E e \in WithSynchronizer \ {frameLog[i].deviceId} :
         \E k \in 1..Len(synchronizers[e].audioBuffer) :
           LET p == synchronizers[e].audioBuffer[k].packet
           IN  /\ p.sequence_num < frameLog[i].frame.video.sequence_num
               /\ p.timestamp_us = frameLog[i].frame.video.timestamp_us

(***************************************************************************)
(* C30.  Within one device, frames are emitted in the order in which they  *)
(* are resolved, which is the order of arrival of the packets that         *)
(* complete them, and the syncedFrame events sent to the device's room are *)
(* in that same order: of two events of one room, the one sent first       *)
(* carries the frame that was emitted first.                               *)
(***************************************************************************)
\* the arrival number of the packet that resolved the frame
ResolvedAt(frame) ==
  IF frame.audio = NULL THEN frame.video.sequence_num
  ELSE IF frame.video = NULL THEN frame.audio.sequence_num
  ELSE IF frame.audio.sequence_num > frame.video.sequence_num
  THEN frame.audio.sequence_num ELSE frame.video.sequence_num

\* the position in frameLog of the frame an event carries
EmittedAs(ev) ==
  {i \in 1..Len(frameLog) :
     /\ frameLog[i].deviceId = ev.room
     /\ PayloadsOf(frameLog[i].frame) = PayloadsOnWire(ev)}

C34_ReceivedAccountedFor ==
  stats.packets_received =
    stats.packets_synced + stats.packets_dropped + Len(audioBuffer) + Len(videoBuffer)

C37_ActiveHaveSynchronizer ==
  \A d \in activeDevices : synchronizers[d] # NoSynchronizer

\* a call has just been ended for a device that keeps its synchronizer,
\* while the other device is still in a call
C37_Witness ==
  /\ lastCall.op \in {"endCall", "unregisterDevice", "handleCallControl"}
  /\ lastCall.device \notin activeDevices
  /\ synchronizers[lastCall.device] # NoSynchronizer
  /\ \E d \in activeDevices : d # lastCall.device


\* the store alone: producers, subscribers and clearDevice
SpecStore == Init /\ [][NextStore]_vars

(***************************************************************************)
(* C33.  StreamStore keeps at most 50 frames per device after any sequence *)
(* of addFrame calls; a frame added to a device that already holds 50      *)
(* discards the oldest frame of that device, the stored frames stay in     *)
(* insertion order, and the frames of the other devices are untouched.     *)
(***************************************************************************)
C33_Step ==
  /\ \A d \in DeviceIds : Len(streams'[d]) <= 50
  /\ lastStore'.op = "addFrame" =>
       \E d \in {lastStore'.deviceId} : \E frame \in {lastStore'.frame} :
         /\ getLatestFrames(d, 1)' = <<frame>>
         /\ IF Len(streams[d]) = 50
            THEN getLatestFrames(d, 50)' = Tail(streams[d]) \o <<frame>>
            ELSE getLatestFrames(d, 50)' = streams[d] \o <<frame>>
         /\ \A e \in DeviceIds \ {d} : streams'[e] = streams[e]

C33_AtMostFiftyOldestDiscarded == [][C33_Step]_vars

\* one device has had its two oldest frames discarded and holds 50, the
\* other holds fewer
C33_Witness ==
  /\ lastStore.op = "addFrame"
  /\ lastStore.deviceId = "door"
  /\ Len(streams["door"]) = 50
  /\ streams["door"][1].timestamp = 3
  /\ Len(streams["gate"]) \in 1..49


(* ---------------- the sweep under timers that keep firing ---------------- *)
\* the number of packets the producers send while the timers are followed
MaxSweepPackets == 2

\* the clock of the model stops at MaxTicks * SweepIntervalMs: a packet
\* arrives early enough when the age 2 * buffer_timeout_ms is reached by then
EarlyEnough == now + 2 * buffer_timeout_ms <= MaxTicks * SweepIntervalMs

earlyAudioPacket(ts) ==
  /\ sent < MaxSweepPackets
  /\ EarlyEnough
  /\ addAudioPacketCall(ts)

earlyVideoPacket(ts) ==
  /\ sent < MaxSweepPackets
  /\ EarlyEnough
  /\ addVideoPacketCall(ts)

NextSweep ==
  \/ \E ts \in TimestampsUs : earlyAudioPacket(ts)
  \/ \E ts \in TimestampsUs : earlyVideoPacket(ts)
  \/ Tick
  \/ Sweep
  \/ emitStats

\* setInterval keeps both timers firing: time passes and a queued timer
\* callback runs
SpecSweep ==
  /\ Init
  /\ [][NextSweep]_vars
  /\ WF_vars(Tick)
  /\ WF_vars(Sweep)
  /\ WF_vars(emitStats)

(***************************************************************************)
(* C36.  Every packet added to a synchronizer is eventually removed from   *)
(* its buffer even when no further packet arrives, provided the periodic   *)
(* sweep keeps firing: no entry whose age has reached                      *)
(* 2 * buffer_timeout_ms survives a sweep.                                 *)
(***************************************************************************)
C36_Buffered(k) == k <= Len(history) /\ history[k].left = "buffered"

C36_SweepStep ==
  last'.op = "sweep" =>
    \A b \in Range(audioBuffer') \cup Range(videoBuffer') :
      now' - b.received_at < 2 * buffer_timeout_ms

C36_EventuallyRemoved ==
  /\ [][C36_SweepStep]_vars
  /\ \A k \in 1..MaxSweepPackets : C36_Buffered(k) ~> ~C36_Buffered(k)

\* the sweep has just removed a packet that nothing had paired or timed
\* out, and left a younger one in its buffer
C36_Witness ==
  /\ last.op = "sweep"
  /\ now = 2 * buffer_timeout_ms
  /\ \E k \in 1..Len(history) : history[k].left = "cleanup"
  /\ Len(audioBuffer) + Len(videoBuffer) > 0


(* ---------------- the handler waiting for the connection ---------------- *)
\* setTimeout(checkConnection, 1000) re-arms the poll until it has found the
\* client connected, so the poll is not postponed for ever
NextConnect ==
  \/ connect
  \/ transportConnect
  \/ transportClose
  \/ checkConnection
  \/ \E pattern \in RouterPatterns \cup {HandlerPatterns[4].pattern},
        callback \in CustomCallbacks :
       subscribeToTopic(pattern, callback)

SpecConnect == Init /\ [][NextConnect]_vars /\ WF_vars(checkConnection)

(***************************************************************************)
(* C39.  The interphone handler registers its four topic handlers          *)
(* (streams/audio, streams/video, interphone/incoming, interphone/control) *)
(* only while the transport reports connected, registers each of them      *)
(* exactly once over the life of the handler, and, if the transport        *)
(* eventually connects and stays connected, eventually registers them; a   *)
(* subscribeToTopic call made while disconnected registers no handler.     *)
(***************************************************************************)
\* how many times callback is registered for pattern
C39_Registered(map, pattern, callback) ==
  Cardinality({<<i, j>> \in (1..Len(map)) \X (1..(MaxRegistrations + 2)) :
                 /\ map[i].pattern = pattern
                 /\ j <= Len(map[i].callbacks)
                 /\ map[i].callbacks[j] = callback})

C39_Count(map, h) == C39_Registered(map, HandlerPatterns[h].pattern,
                                    HandlerPatterns[h].callback)

C39_AllRegistered == \A h \in 1..4 : C39_Count(topicCallbacks, h) = 1

C39_Step ==
  /\ \A h \in 1..4 :
       /\ C39_Count(topicCallbacks', h) <= 1
       /\ C39_Count(topicCallbacks', h) >= C39_Count(topicCallbacks, h)
       /\ C39_Count(topicCallbacks', h) > C39_Count(topicCallbacks, h)
            => isConnected /\ isConnected'
  /\ (lastMessage'.op = "subscribeToTopic" /\ lastCall'.op = "MQTTManager"
        /\ ~isConnected)
       => topicCallbacks' = topicCallbacks

C39_RegisteredOnceWhileConnected ==
  /\ [][C39_Step]_vars
  /\ <>[]isConnected => <>C39_AllRegistered

\* each of the four handlers is registered once, the control pattern also
\* holds a callback of another caller, and the transport has since dropped
\* and come back
C39_Witness ==
  /\ C39_AllRegistered
  /\ isConnected
  /\ lastCall.op = "connect"
  /\ \E i \in 1..Len(topicCallbacks) :
       /\ topicCallbacks[i].pattern = HandlerPatterns[4].pattern
       /\ Len(topicCallbacks[i].callbacks) = 2


(* ---------------- the handler receiving its own control events ---------------- *)
EchoMessages ==
  [device : DeviceIds, event_type : {"CALL_ANSWERED", "CALL_ENDED"}]

NextEcho ==
  \/ connect
  \/ transportConnect
  \/ checkConnection
  \/ \E deviceId \in DeviceIds : handleIncomingCall(deviceId, TRUE, "INCOMING_CALL")
  \/ \E deviceId \in DeviceIds : answerCall(deviceId)
  \/ \E deviceId \in DeviceIds : rejectCall(deviceId)
  \/ brokerRoute
  \/ \E m \in EchoMessages : deliverEcho(m)

SpecEcho == Init /\ [][NextEcho]_vars

(***************************************************************************)
(* C38.  The control events the handler itself publishes (CALL_ANSWERED by *)
(* answerCall, CALL_ENDED by rejectCall), when the broker delivers them    *)
(* back to the handler's own subscription, never end a call that started   *)
(* after they were published: if a new incoming call for the same device   *)
(* is handled between rejectCall and the delivery of its echoed            *)
(* CALL_ENDED, the device is still active after the echo is handled.       *)
(***************************************************************************)
C38_Step ==
  (/\ lastCall.op = "handleIncomingCall"
   /\ lastCall.decoded
   /\ lastCall'.op = "handleCallControl"
   /\ inFlight' # inFlight
   /\ lastCall'.device = lastCall.device)
    => lastCall'.device \in activeDevices'

C38_EchoKeepsNewCall == [][C38_Step]_vars


(* ---------------- frame listeners that fail ---------------- *)
\* the callbacks given to onSyncedFrame, in registration order
FrameListeners == <<"first", "second">>

\* the number of packets the producers send to a synchronizer whose
\* listeners may fail
MaxListenerPackets == 3

\* trySync when a listener throws on the first frame emitSyncedFrame hands
\* it: the exception leaves forEach, emitSyncedFrame and trySync at once,
\* before the splice, respectively the filter, and before the counters
trySyncThrowing(ab, vb, st, t) ==
  LET r == trySync(ab, vb, st, t)
  IN  IF r.frames = <<>> THEN r
      ELSE [audioBuffer |-> ab, videoBuffer |-> vb, stats |-> st,
            frames |-> <<r.frames[1]>>, synced |-> {}, orphaned |-> {}]

\* addAudioPacket/addVideoPacket after the push and sort, with the listener
\* at position k throwing when it is called
AddPacketThrowing(name, packet, ab, vb, k) ==
  \E r \in {trySyncThrowing(ab, vb, [stats EXCEPT !.packets_received = @ + 1], now)} :
    /\ r.frames # <<>>
    /\ audioBuffer' = r.audioBuffer
    /\ videoBuffer' = r.videoBuffer
    /\ stats' = r.stats
    /\ emitted' = emitted \o r.frames
    /\ sent' = sent + 1
    /\ history' = Append(history, [stream_type |-> packet.stream_type,
                                   left |-> "buffered"])
    /\ last' = [op |-> name, packet |-> packet, audioIn |-> ab, videoIn |-> vb,
                frames |-> r.frames, threw |-> FrameListeners[k],
                called |-> {FrameListeners[n] : n \in 1..k}]
    /\ UNCHANGED <<now, sweepDue, statsDue, statsSeen, resets>>
    /\ UNCHANGED handlerVars
    /\ UNCHANGED outerVars

addAudioPacketThrowing(ts, k) ==
  /\ sent < MaxListenerPackets
  /\ now \in ArrivalTimes
  /\ LET packet == [stream_type |-> "AUDIO", sequence_num |-> sent + 1,
                    timestamp_us |-> ts]
         buffered == [packet |-> packet, received_at |-> now]
     IN  AddPacketThrowing("addAudioPacket", packet,
                           SortByTimestamp(Append(audioBuffer, buffered)),
                           videoBuffer, k)

addVideoPacketThrowing(ts, k) ==
  /\ sent < MaxListenerPackets
  /\ now \in ArrivalTimes
  /\ LET packet == [stream_type |-> "VIDEO", sequence_num |-> sent + 1,
                    timestamp_us |-> ts]
         buffered == [packet |-> packet, received_at |-> now]
     IN  AddPacketThrowing("addVideoPacket", packet, audioBuffer,
                           SortByTimestamp(Append(videoBuffer, buffered)), k)

NextListeners ==
  \/ \E ts \in TimestampsUs :
       /\ sent < MaxListenerPackets
       /\ addAudioPacket(ts)
  \/ \E ts \in TimestampsUs :
       /\ sent < MaxListenerPackets
       /\ addVideoPacket(ts)
  \/ \E ts \in TimestampsUs, k \in 1..Len(FrameListeners) : addAudioPacketThrowing(ts, k)
  \/ \E ts \in TimestampsUs, k \in 1..Len(FrameListeners) : addVideoPacketThrowing(ts, k)
  \/ Tick
  \/ Sweep
  \/ emitStats

SpecListeners == Init /\ [][NextListeners]_vars

(***************************************************************************)
(* C32.  A failure while delivering a frame to one consumer is contained:  *)
(* it does not stop the other consumers of that frame from receiving it,   *)
(* and it does not prevent the synchronizer from completing the step that  *)
(* emitted the frame (the matched or orphaned packets are still removed    *)
(* and the counters still updated), so the same packets are not emitted    *)
(* again by a later AddPacket.                                             *)
(***************************************************************************)
C32_Threw == last.op \in AddOps /\ "threw" \in DOMAIN last

C32_PacketsOf(frame) ==
  {q \in {frame.audio, frame.video} : q # NULL}

C32_FailureContained ==
  /\ C32_Threw =>
       /\ last.called = Range(FrameListeners)
       /\ \A f \in Range(last.frames) : \A q \in C32_PacketsOf(f) :
            ~Buffered(q.sequence_num)
       /\ stats.packets_synced + stats.packets_dropped > 0
  /\ \A m, n \in 1..Len(emitted) :
       m # n => C32_PacketsOf(emitted[m]) \cap C32_PacketsOf(emitted[n]) = {}


\* the pair a failing listener left in the buffers has been emitted a second
\* time by the next addAudioPacket or addVideoPacket
C32_EmittedAgain ==
  \E m, n \in 1..Len(emitted) :
    m # n /\ C32_PacketsOf(emitted[m]) \cap C32_PacketsOf(emitted[n]) # {}


(* ---------------- streams, rooms and the clock ---------------- *)
\* the number of stream packets the handler receives while the clock runs
MaxWirePackets == 2

NextWire ==
  \/ connect
  \/ transportConnect
  \/ checkConnection
  \/ setSocketServer
  \/ \E connection \in Connections, deviceId \in DeviceIds :
       subscribeToDevice(connection, deviceId)
  \/ \E deviceId \in DeviceIds, ts \in StreamTimestampsUs :
       /\ streamed < MaxWirePackets
       /\ now \in ArrivalTimes
       /\ handleAudioStreamCall(deviceId, TRUE, ts)
  \/ \E deviceId \in DeviceIds, ts \in StreamTimestampsUs :
       /\ streamed < MaxWirePackets
       /\ now \in ArrivalTimes
       /\ handleVideoStreamCall(deviceId, TRUE, ts)
  \/ Tick
  \/ Sweep
  \/ emitStats

SpecWire == Init /\ [][NextWire]_vars

(***************************************************************************)
(* C31.  In every syncedFrame wire record, deviceId is the device whose    *)
(* synchronizer emitted the frame, timestamp is the frame's timestamp,     *)
(* hasAudio is true exactly when the audio field is non-null and exactly   *)
(* when the frame had an audio packet, and hasVideo is true exactly when   *)
(* the video field is non-null and exactly when the frame had a video      *)
(* packet.                                                                 *)
(***************************************************************************)
C31_Step ==
  socketIOServer =>
    \E new \in {Appended(wire, wire')} : \E frames \in {Appended(frameLog, frameLog')} :
      /\ Len(new) = Len(frames)
      /\ \A i \in 1..Len(new) :
           \E data \in {new[i].data} : \E frame \in {frames[i].frame} :
             /\ new[i].event = "syncedFrame"
             /\ data.deviceId = frames[i].deviceId
             /\ \A q \in {frame.audio, frame.video} :
                  q # NULL => q.device_id = data.deviceId
             /\ data.timestamp = frame.timestamp
             /\ data.hasAudio <=> data.audio # NULL
             /\ data.hasAudio <=> frame.audio # NULL
             /\ data.hasVideo <=> data.video # NULL
             /\ data.hasVideo <=> frame.video # NULL

C31_WireRecordMatchesFrame == [][C31_Step]_vars

\* an audio-only frame of a device has just gone on the wire, to a
\* connection in the room of that device
C31_Witness ==
  /\ lastCall.op = "handleAudioStream"
  /\ wire # <<>>
  /\ \E ev \in {wire[Len(wire)]} :
       /\ ev.data.hasAudio /\ ~ev.data.hasVideo
       /\ ev.data.audio # NULL /\ ev.data.video = NULL
       /\ ev.data.deviceId = lastCall.device
       /\ ev.to # {}

================================================================================
